---- MODULE Spec2Model ----
(***************************************************************************)
(* State-machine model of the style-preserving find/replace pass of        *)
(* backend/app/pdf_ops.py (_find_replace_core and the helpers it calls).   *)
(*                                                                         *)
(* Texts and font names are sequences of one-character strings.  In font   *)
(* names the letter "C" stands for a sans family the Base-14 table knows   *)
(* (Calibri), "T" for a serif family it knows (Times), "F" for a family it *)
(* does not know, "D" for the keyword "bold", "I" for the keyword          *)
(* "italic", "X" for the letters of a subset tag, "+" and "/" for          *)
(* themselves.  The Computer-Modern and Courier branches of the name       *)
(* tables need letters this alphabet does not have and are not reached.    *)
(***************************************************************************)
EXTENDS Integers, Sequences, FiniteSets, TLC

VARIABLES
    host,            \* font files installed on the machine (fixed per run)
    req,             \* per pass: the arguments of _find_replace_core
    pc,              \* per pass: control location inside _find_replace_core
    exc,             \* per pass: the exception in flight / raised
    page_indices,    \* per pass: local page_indices
    loopIdx,         \* per pass: position of the page loop in page_indices
    targets,         \* per pass: targets/styles/originals of the current page
    matchIdx,        \* per pass: position of the insertion loop in targets
    fontfile_cache,  \* per pass: local fontfile_cache (normalized name -> path)
    font_obj_cache,  \* per pass: local font_obj_cache (set of keys)
    replace_count,   \* per pass: local replace_count
    token,           \* per pass: local token of _EXTRA_FONT_DIRS.set
    extraFontDirs,   \* per context: value of the ContextVar _EXTRA_FONT_DIRS
    fs,              \* per pass: the pass's TemporaryDirectory (files or NoDir)
    docState,        \* per pass: mutations applied to the opened document
    pageLog,         \* per pass: reads/redactions/insertions on the current page
    extractLog,      \* per pass: normalized names handed to embedded extraction
    outcome,         \* per pass: what the call returned or raised
    lastMatch,       \* the most recent execution of the insertion-loop body
    debug,           \* per pass: local debug, the diagnostics map
    call,            \* the helper call in flight: operation and inputs
    ret              \* what the helper call returned or raised

vars == << host, req, pc, exc, page_indices, loopIdx, targets, matchIdx,
           fontfile_cache, font_obj_cache, replace_count, token, extraFontDirs,
           fs, docState, pageLog, extractLog, outcome, lastMatch, debug,
           call, ret >>

(***************************************************************************)
(* Bounds of the model.                                                    *)
(***************************************************************************)
MaxPages == 2
MaxMatches == 2

Passes == {"p1", "p2"}
None == "None"
NoKey == <<>>

Range(s) == { s[i] : i \in 1..Len(s) }

(***************************************************************************)
(* Characters.                                                             *)
(***************************************************************************)
Chars == {"a", "b", "A", "B", " "}

IsSpace(ch) == ch = " "
UpperLetters == <<"A", "B", "X", "C", "T", "F", "D", "I">>
LowerLetters == <<"a", "b", "x", "c", "t", "f", "d", "i">>

IsUpperCh(ch) == ch \in Range(UpperLetters)
IsLowerCh(ch) == ch \in Range(LowerLetters)
IsAlpha(ch) == IsUpperCh(ch) \/ IsLowerCh(ch)

LowerCh(ch) ==
    IF IsUpperCh(ch)
    THEN LowerLetters[CHOOSE i \in 1..Len(UpperLetters) : UpperLetters[i] = ch]
    ELSE ch

UpperCh(ch) ==
    IF IsLowerCh(ch)
    THEN UpperLetters[CHOOSE i \in 1..Len(LowerLetters) : LowerLetters[i] = ch]
    ELSE ch

LowerStr(s) == [i \in 1..Len(s) |-> LowerCh(s[i])]
UpperStr(s) == [i \in 1..Len(s) |-> UpperCh(s[i])]

\* str.strip(): drop leading and trailing whitespace.
RECURSIVE LStrip(_)
LStrip(s) == IF s # <<>> /\ IsSpace(Head(s)) THEN LStrip(Tail(s)) ELSE s

RECURSIVE RStrip(_)
RStrip(s) ==
    IF s # <<>> /\ IsSpace(s[Len(s)]) THEN RStrip(SubSeq(s, 1, Len(s) - 1)) ELSE s

Strip(s) == RStrip(LStrip(s))

\* str.title(): a letter is upper-cased when it follows a non-letter (or starts
\* the string) and lower-cased otherwise.
TitleStr(s) ==
    [i \in 1..Len(s) |->
        IF i = 1 \/ ~IsAlpha(s[i - 1]) THEN UpperCh(s[i]) ELSE LowerCh(s[i])]

\* Index of the first occurrence of ch in s (0 when absent): str.index.
FirstIndex(s, ch) ==
    IF ch \in Range(s)
    THEN CHOOSE i \in 1..Len(s) : s[i] = ch /\ \A j \in 1..(i - 1) : s[j] # ch
    ELSE 0


(***************************************************************************)
(* Text helpers.                                                           *)
(***************************************************************************)
_replacement_introduces_new_chars(original_text, replacement_text) ==
    \E i \in 1..Len(replacement_text) :
        replacement_text[i] \notin Range(original_text)

\* re.split(r"\s+", o) without the empty pieces.
RECURSIVE SplitWords(_, _)
SplitWords(s, cur) ==
    IF s = <<>> THEN (IF cur = <<>> THEN <<>> ELSE <<cur>>)
    ELSE IF IsSpace(Head(s))
         THEN (IF cur = <<>> THEN <<>> ELSE <<cur>>) \o SplitWords(Tail(s), <<>>)
         ELSE SplitWords(Tail(s), Append(cur, Head(s)))

is_title_word(w) ==
    LET alphaIdx == { i \in 1..Len(w) : IsAlpha(w[i]) } IN
    IF alphaIdx = {} THEN TRUE
    ELSE LET f == CHOOSE i \in alphaIdx : \A j \in alphaIdx : i <= j
             first == w[f]
             from == FirstIndex(w, first)
         IN  /\ IsUpperCh(first)
             /\ \A k \in (from + 1)..Len(w) : ~IsAlpha(w[k]) \/ IsLowerCh(w[k])

_match_replacement_case_title_first(original, replacement) ==
    LET o == Strip(original)
        letters == { i \in 1..Len(o) : IsAlpha(o[i]) }
        words == SplitWords(o, <<>>)
    IN  IF replacement = <<>> THEN replacement
        ELSE IF o = <<>> THEN replacement
        ELSE IF letters = {} THEN replacement
        ELSE IF words # <<>> /\ \A i \in 1..Len(words) : is_title_word(words[i])
             THEN TitleStr(replacement)
        ELSE IF \A i \in letters : IsUpperCh(o[i]) THEN UpperStr(replacement)
        ELSE IF \A i \in letters : IsLowerCh(o[i]) THEN LowerStr(replacement)
        ELSE replacement

_match_replacement_case(original, replacement) ==
    LET o == Strip(original)
        letters == { i \in 1..Len(o) : IsAlpha(o[i]) }
        words == SplitWords(o, <<>>)
    IN  IF replacement = <<>> THEN replacement
        ELSE IF o = <<>> THEN replacement
        ELSE IF letters = {} THEN replacement
        ELSE IF \A i \in letters : IsUpperCh(o[i]) THEN UpperStr(replacement)
        ELSE IF \A i \in letters : IsLowerCh(o[i]) THEN LowerStr(replacement)
        ELSE IF words # <<>> /\ \A i \in 1..Len(words) : is_title_word(words[i])
             THEN TitleStr(replacement)
        ELSE replacement

(***************************************************************************)
(* Font-name helpers.                                                      *)
(***************************************************************************)
Contains(name, ch) == ch \in Range(name)

_infer_bold_italic(fontname) ==
    LET name == LowerStr(fontname)
    IN  [bold |-> Contains(name, "d"), italic |-> Contains(name, "i")]

\* The nested pick(family) of _map_font_to_base14.
Base14Pick(family, is_bold, is_italic) ==
    IF family = "times"
    THEN (IF is_bold /\ is_italic THEN "Times-BoldItalic"
          ELSE IF is_bold THEN "Times-Bold"
          ELSE IF is_italic THEN "Times-Italic"
          ELSE "Times-Roman")
    ELSE (IF is_bold /\ is_italic THEN "Helvetica-BoldOblique"
          ELSE IF is_bold THEN "Helvetica-Bold"
          ELSE IF is_italic THEN "Helvetica-Oblique"
          ELSE "Helvetica")

_map_font_to_base14(fontname) ==
    LET name == LowerStr(fontname)
        bi == _infer_bold_italic(name)
    IN  IF fontname = <<>> THEN None
        ELSE IF Contains(name, "t") THEN Base14Pick("times", bi.bold, bi.italic)
        ELSE IF Contains(name, "c") THEN Base14Pick("helv", bi.bold, bi.italic)
        ELSE None

\* name.split("+", 1)[1]
AfterPlus(name) == SubSeq(name, FirstIndex(name, "+") + 1, Len(name))

_normalize_fontname(fontname) ==
    LET n0 == Strip(fontname)
        n1 == IF n0 # <<>> /\ Head(n0) = "/" THEN Tail(n0) ELSE n0
        n2 == IF Contains(n1, "+") THEN AfterPlus(n1) ELSE n1
    IN  LowerStr(Strip(n2))

(***************************************************************************)
(* Font files.  A file is [owner, src, name, kind]: owner is the pass in   *)
(* whose temporary directory it lies, or "host"; name is its lower-case    *)
(* file name, in which "d", "i" and "r" stand for the keywords the scorer  *)
(* looks for ("bold"/"bd", "italic", "regular"); kind tells what the font  *)
(* program holds.                                                          *)
(***************************************************************************)
FontFile(owner, src, name, kind) ==
    [owner |-> owner, src |-> src, name |-> name, kind |-> kind]

\* Python's None where a font file path is expected.
NoFile == FontFile("host", "none", <<>>, "none")

AllGlyphs == Chars \cup Range(UpperLetters) \cup Range(LowerLetters)
PartialGlyphs == {"a", "A"}

\* fitz.Font(fontfile=...) succeeds / raises.
Loads(file) == file.kind # "broken"
\* fitz.Font.has_glyph
has_glyph(file, ch) ==
    ch \in (IF file.kind = "full" THEN AllGlyphs ELSE PartialGlyphs)

_font_supports_text(text, fontfile) ==
    IF text = <<>> THEN TRUE
    ELSE IF fontfile = NoFile THEN TRUE
    ELSE \A i \in 1..Len(text) :
            IsSpace(text[i]) \/ (Loads(fontfile) /\ has_glyph(fontfile, text[i]))

IsSubSeq(key, f) ==
    \E i \in 0..(Len(f) - Len(key)) : SubSeq(f, i + 1, i + Len(key)) = key

_score_font_filename(filename, family_key, bold, italic) ==
    LET f == LowerStr(filename)
        is_bold_name == Contains(f, "d")
        is_italic_name == Contains(f, "i")
        is_regular_name == Contains(f, "r")
    IN  (IF family_key # <<>> /\ IsSubSeq(family_key, f) THEN 10 ELSE 0)
        + (IF bold THEN (IF is_bold_name THEN 4 ELSE -1)
           ELSE (IF is_regular_name /\ ~is_bold_name THEN 1 ELSE 0)
                - (IF is_bold_name THEN 2 ELSE 0))
        + (IF italic THEN (IF is_italic_name THEN 4 ELSE -1)
           ELSE (IF is_italic_name THEN -2 ELSE 0))
        + 1

\* Known families map to their key; any other name is its own key.
_family_key_from_norm(norm) ==
    IF Contains(norm, "t") THEN <<"t">>
    ELSE IF Contains(norm, "c") THEN <<"c">>
    ELSE NoKey

\* One context for every pass: a module-level variable.
ContextShared(p) == "ctx"
\* The context a pass runs in, which holds its own value of the ContextVar
\* _EXTRA_FONT_DIRS: each request is handled in a context of its own.
ContextOf(p) == p

\* _custom_fonts_dirs_with_source: uploaded directories of the current
\* context, then the configured and bundled directories of the host, without
\* duplicates.  A directory is [owner, src, files]; the files of an uploaded
\* directory are those present in the owner's temporary directory now.
UploadedDir(owner) == [owner |-> owner, src |-> "uploaded", files |-> <<>>]

\* os.listdir(d) raises when the directory is gone.
CanList(d) == d.src # "uploaded" \/ fs[d.owner].exists

DirListing(d) == IF d.src = "uploaded" THEN fs[d.owner].uploaded ELSE d.files

RECURSIVE DeDup(_, _)
DeDup(s, seen) ==
    IF s = <<>> THEN <<>>
    ELSE IF Head(s) \in seen THEN DeDup(Tail(s), seen)
         ELSE <<Head(s)>> \o DeDup(Tail(s), seen \cup {Head(s)})

_custom_fonts_dirs_with_source(p) ==
    DeDup(extraFontDirs[ContextOf(p)] \o host.dirs, {})

\* The scan of _try_custom_fontfile_with_source: directories in order, files
\* in listing order, a file replaces the best one only with a strictly
\* greater score; a directory that cannot be listed is skipped.
RECURSIVE ScanFiles(_, _, _, _, _)
ScanFiles(files, family_key, bold, italic, best) ==
    IF files = <<>> THEN best
    ELSE LET s == _score_font_filename(Head(files).name, family_key, bold, italic)
         IN  ScanFiles(Tail(files), family_key, bold, italic,
                       IF s <= best.score THEN best
                       ELSE [score |-> s, file |-> Head(files)])

RECURSIVE ScanDirs(_, _, _, _, _)
ScanDirs(dirs, family_key, bold, italic, best) ==
    IF dirs = <<>> THEN best
    ELSE ScanDirs(Tail(dirs), family_key, bold, italic,
                  IF ~CanList(Head(dirs)) THEN best
                  ELSE ScanFiles(DirListing(Head(dirs)), family_key, bold, italic, best))

\* Lines 712-752 for the normalized name norm and the family key known
\* (NoKey when the name tells no known family).
CustomFileForKey(p, norm, known, bold, italic) ==
    IF norm = <<>> THEN NoFile
    \* len(family_key) < 3: only the letter "f" stands for a long name.
    ELSE IF known = NoKey /\ ~Contains(norm, "f") THEN NoFile
    ELSE ScanDirs(_custom_fonts_dirs_with_source(p),
                  IF known # NoKey THEN known ELSE norm, bold, italic,
                  [score |-> 0, file |-> NoFile]).file

CustomFileForNorm(p, norm, bold, italic) ==
    CustomFileForKey(p, norm, _family_key_from_norm(norm), bold, italic)

_try_custom_fontfile_with_source(p, fontname, bold, italic) ==
    CustomFileForNorm(p, _normalize_fontname(fontname), bold, italic)

\* _try_system_fontfile_native: the file the host's font tables give.
_try_system_fontfile_native(fontname) ==
    IF _normalize_fontname(fontname) = <<>> THEN NoFile ELSE host.native

\* Python's `a or b` on optional paths.
OrElse(a, b) == IF a # NoFile THEN a ELSE b

\* The host's font tables asked first, the custom directories second.
_try_system_fontfile_native_first(p, fontname, bold, italic) ==
    OrElse(_try_system_fontfile_native(fontname),
           _try_custom_fontfile_with_source(p, fontname, bold, italic))
_try_system_fontfile_with_source(p, fontname, bold, italic) ==
    OrElse(_try_custom_fontfile_with_source(p, fontname, bold, italic),
           _try_system_fontfile_native(fontname))

\* _try_windows_fontfile: None unless WINDIR names a Fonts directory; which
\* tells the name looked up (the detected name, its Base-14 mapping, or the
\* caller's font choice).
_try_windows_fontfile(which) ==
    IF host.os # "nt" THEN NoFile ELSE host.windows[which]

IsExplicitChoice(choice) == choice # <<>> /\ LowerStr(Strip(choice)) # <<"a", "u", "t", "o">>

\* A font choice that is never resolved.
_windows_fontfile_for_choice_ignored(p, choice, bold, italic) == NoFile
_windows_fontfile_for_choice(p, choice, bold, italic) ==
    IF ~IsExplicitChoice(choice) THEN NoFile
    ELSE IF host.os # "nt"
         THEN _try_system_fontfile_with_source(p, LowerStr(Strip(choice)), bold, italic)
         ELSE _try_windows_fontfile("choice")

(***************************************************************************)
(* The body of the insertion loop of _find_replace_core for one match.     *)
(* A target is what the page analysis stored for the match:                *)
(*   [style |-> [fontname, bold, italic, builtin], original, insert].      *)
(* style.builtin tells whether page.insert_text accepts the detected name  *)
(* as a font name of its own.  raises tells whether page.insert_text       *)
(* raises whatever the font (the other way an insertion fails is a font    *)
(* file that does not load).                                               *)
(***************************************************************************)
\* The dict fontfile_cache is the set of its items [key, file].
CacheHas(cache, key) == \E e \in cache : e.key = key
\* dict.get: the stored path, None for a missing key (and for a stored None).
CacheGet(cache, key) ==
    IF CacheHas(cache, key) THEN (CHOOSE e \in cache : e.key = key).file ELSE NoFile

BuiltinFont == FontFile("host", "builtin", <<>>, "full")

\* The locals computed before the first insertion attempt, in the order
\* of the source: name and flags, then the font files, then the check of
\* the embedded file.
LocalsChecked(t, fontname, is_bold, is_italic, mapped_font, insert_text, system_fontfile, embedded_fontfile, forced_windows, windows_fontfile, introduces_new) ==
    [ fontname |-> fontname, is_bold |-> is_bold, is_italic |-> is_italic,
      mapped_font |-> mapped_font, insert_text |-> insert_text,
      original |-> t.original, name_is_builtin |-> t.style.builtin,
      system_fontfile |-> system_fontfile,
      embedded_fontfile |-> embedded_fontfile,
      forced_windows |-> forced_windows,
      windows_fontfile |-> windows_fontfile,
      is_subset_font |-> fontname # <<>> /\ Contains(fontname, "+"),
      introduces_new |-> introduces_new,
      can_use_embedded |->
          IF embedded_fontfile # NoFile /\ forced_windows = NoFile
          THEN _font_supports_text(insert_text, embedded_fontfile) ELSE FALSE ]

\* Lines 1823-1827: forced_windows or the file for the detected name, and
\* failing both the file for the Base-14 mapping.
WindowsByName(forced_windows) == OrElse(forced_windows, _try_windows_fontfile("detected"))

WindowsFontfile(by_name, mapped_font) ==
    IF by_name = NoFile /\ mapped_font # None
    THEN _try_windows_fontfile("mapped") ELSE by_name

LocalsWithFiles(p, t, fontname, is_bold, is_italic, mapped_font, forced_windows) ==
    LocalsChecked(t, fontname, is_bold, is_italic, mapped_font,
        _match_replacement_case(t.original, t.insert),
        _try_system_fontfile_with_source(p, fontname, is_bold, is_italic),
        IF fontname # <<>>
        THEN CacheGet(fontfile_cache[p], _normalize_fontname(fontname)) ELSE NoFile,
        forced_windows,
        WindowsFontfile(WindowsByName(forced_windows), mapped_font),
        _replacement_introduces_new_chars(t.original, req[p].replace_text))

LocalsWithFlags(p, t, fontname, is_bold, is_italic) ==
    LocalsWithFiles(p, t, fontname, is_bold, is_italic,
        _map_font_to_base14(fontname),
        _windows_fontfile_for_choice(p, req[p].font_choice, is_bold, is_italic))

LocalsWithBase(p, t, base) ==
    LocalsWithFlags(p, t, t.style.fontname,
        t.style.bold \/ base.bold, t.style.italic \/ base.italic)

MatchLocals(p, t) == LocalsWithBase(p, t, _infer_bold_italic(t.style.fontname))

\* Line 1834.
prefer_full_font(m) ==
    m.forced_windows # NoFile \/ m.is_subset_font \/ m.introduces_new

\* The guards of the six blocks, in source order.
TryEmbeddedFirst(m) ==
    /\ m.embedded_fontfile # NoFile /\ m.forced_windows = NoFile
    /\ m.can_use_embedded /\ ~prefer_full_font(m)

TryWindows(m) ==
    /\ m.windows_fontfile # NoFile
    /\ \/ m.forced_windows # NoFile
       \/ prefer_full_font(m)
       \/ m.introduces_new
       \/ m.embedded_fontfile = NoFile
       \/ ~m.can_use_embedded

TryEmbeddedLastResort(m) == m.embedded_fontfile # NoFile
TryWindowsFallback(m) == m.windows_fontfile # NoFile
TrySystem(m) == m.system_fontfile # NoFile

Step(tier, cand, file) == [tier |-> tier, cand |-> cand, file |-> file]

\* A loop over the default face first, then the mapping, then the name.
BuiltinCandidatesHelvFirst(m) ==
    <<Step("builtin", "helv", BuiltinFont)>>
    \o (IF m.mapped_font # None
        THEN <<Step("builtin", "mapped", BuiltinFont)>> ELSE <<>>)
    \o (IF m.fontname # <<>>
        THEN <<Step("builtin", "fontname", BuiltinFont)>> ELSE <<>>)
\* Line 2072: for candidate in (style.fontname, mapped_font, "helv"), the
\* empty ones skipped.
BuiltinCandidates(m) ==
    (IF m.fontname # <<>>
     THEN <<Step("builtin", "fontname", BuiltinFont)>> ELSE <<>>)
    \o (IF m.mapped_font # None
        THEN <<Step("builtin", "mapped", BuiltinFont)>> ELSE <<>>)
    \o <<Step("builtin", "helv", BuiltinFont)>>

\* The insertion attempts the body would make if every one of them raised.
InsertionPlan(m) ==
    (IF TryEmbeddedFirst(m)
     THEN <<Step("embedded", "file", m.embedded_fontfile)>> ELSE <<>>)
    \o (IF TryWindows(m)
        THEN <<Step("windows", "file", m.windows_fontfile)>> ELSE <<>>)
    \o (IF TryEmbeddedLastResort(m)
        THEN <<Step("embedded_last_resort", "file", m.embedded_fontfile)>> ELSE <<>>)
    \o (IF TryWindowsFallback(m)
        THEN <<Step("windows_fallback", "file", m.windows_fontfile)>> ELSE <<>>)
    \o (IF TrySystem(m)
        THEN <<Step("system", "file", m.system_fontfile)>> ELSE <<>>)
    \o BuiltinCandidates(m)

\* page.insert_text with this font returns (TRUE) or raises (FALSE).
InsertSucceeds(m, step, raises) ==
    /\ ~raises
    /\ IF step.cand = "file" THEN Loads(step.file)
       ELSE IF step.cand = "fontname" THEN m.name_is_builtin
       ELSE TRUE

\* Every block ends in `continue` (or `break`) after a successful insertion
\* and falls through to the next block when the insertion raised.
RECURSIVE RunPlan(_, _, _)
RunPlan(m, plan, raises) ==
    IF plan = <<>> THEN <<>>
    ELSE IF InsertSucceeds(m, Head(plan), raises) THEN <<Head(plan)>>
         ELSE <<Head(plan)>> \o RunPlan(m, Tail(plan), raises)

BodyRecord(p, m, raises, attempts) ==
    [ pass |-> p, locals |-> m, raises |-> raises, attempts |-> attempts,
      inserted |-> InsertSucceeds(m, attempts[Len(attempts)], raises) ]

BodyWithLocals(p, m, raises) ==
    BodyRecord(p, m, raises, RunPlan(m, InsertionPlan(m), raises))

LoopBody(p, t, raises) == BodyWithLocals(p, MatchLocals(p, t), raises)

(***************************************************************************)
(* _find_replace_core as a state machine.  Optional integers are <<>>      *)
(* (None) or <<n>>.                                                        *)
(***************************************************************************)
NoMatch == [pass |-> "none"]
NoOutcome == [kind |-> "pending", bytes |-> FALSE, error |-> "none", count |-> 0]
NoTmp == [exists |-> FALSE, uploaded |-> <<>>, extracted |-> {}]
NoToken == [set |-> FALSE, old |-> <<>>]
\* The opened document before any page is touched: the pages redacted, the
\* pages with inserted text, the number of redaction annotations added.
NoDocState == [redacted |-> {}, inserted |-> {}, annots |-> 0]

\* Line 1674: debug = {}.
NoDebug ==
    [ set |-> FALSE, page |-> 0, index |-> 0, detectedFont |-> <<>>,
      detectedBold |-> FALSE, detectedItalic |-> FALSE, usedSource |-> "none",
      usedFont |-> [tier |-> "none", cand |-> "none", file |-> NoFile] ]

\* _replace_case_insensitive: re.sub of the escaped pattern, IGNORECASE.
RECURSIVE _replace_case_insensitive(_, _, _)
_replace_case_insensitive(text, find_text, replace_text) ==
    IF text = <<>> \/ find_text = <<>> THEN text
    ELSE IF Len(text) >= Len(find_text)
            /\ LowerStr(SubSeq(text, 1, Len(find_text))) = LowerStr(find_text)
         THEN replace_text \o
              _replace_case_insensitive(
                  SubSeq(text, Len(find_text) + 1, Len(text)), find_text, replace_text)
         ELSE <<Head(text)>> \o
              _replace_case_insensitive(Tail(text), find_text, replace_text)

\* Lines 1676-1701: the error raised by the argument checks ("none" when
\* they pass).  fitz.open of bytes that are no PDF raises its own exception.
ValidationError(r) ==
    IF r.find_text = <<>> THEN "PdfOpError"
    ELSE IF ~r.doc.valid THEN "Exception"
    ELSE IF r.scope \notin {"all", "range"} THEN "PdfOpError"
    ELSE IF r.scope = "range"
         THEN (IF r.from_page = <<>> \/ r.to_page = <<>> THEN "PdfOpError"
               ELSE IF r.from_page[1] < 1 \/ r.from_page[1] > r.doc.page_count
                    THEN "PdfOpError"
               ELSE IF r.to_page[1] < 1 \/ r.to_page[1] > r.doc.page_count
                    THEN "PdfOpError"
               ELSE IF r.to_page[1] < r.from_page[1] THEN "PdfOpError"
               ELSE "none")
    ELSE "none"

\* list(range(a, b)): the 0-based indices a .. b-1.
PyRange(a, b) == [i \in 1..(IF b > a THEN b - a ELSE 0) |-> a + i - 1]

\* The range taken from the first page of the document.
PageIndicesFromStart(r) ==
    IF r.scope = "range" THEN PyRange(0, r.to_page[1])
    ELSE PyRange(0, r.doc.page_count)
\* Lines 1698-1701: the 0-based pages the loop visits.
PageIndices(r) ==
    IF r.scope = "range" THEN PyRange(r.from_page[1] - 1, r.to_page[1])
    ELSE PyRange(0, r.doc.page_count)

Validate(p) ==
    /\ pc[p] = "start"
    /\ LET err == ValidationError(req[p]) IN
       IF err # "none"
       THEN /\ exc' = [exc EXCEPT ![p] = err]
            /\ outcome' = [outcome EXCEPT ![p] =
                    [kind |-> "error", bytes |-> FALSE, error |-> err, count |-> 0]]
            /\ pc' = [pc EXCEPT ![p] = "done"]
            /\ UNCHANGED page_indices
       ELSE /\ page_indices' = [page_indices EXCEPT ![p] = PageIndices(req[p])]
            /\ pc' = [pc EXCEPT ![p] = "setup"]
            /\ UNCHANGED << exc, outcome >>
    /\ UNCHANGED << call, ret, debug >>
    /\ UNCHANGED << host, req, loopIdx, targets, matchIdx, fontfile_cache,
                    font_obj_cache, replace_count, token, extraFontDirs, fs,
                    docState, pageLog, extractLog, lastMatch >>

\* Lines 1710-1719: the uploaded files written to user_dir: an entry with no
\* data or without a .ttf/.otf extension is skipped.
RECURSIVE WrittenUploads(_, _)
WrittenUploads(p, extra_fonts) ==
    IF extra_fonts = <<>> THEN <<>>
    ELSE (IF Head(extra_fonts).has_data /\ Head(extra_fonts).font_ext
          THEN <<FontFile(p, "uploaded", Head(extra_fonts).name, Head(extra_fonts).kind)>>
          ELSE <<>>)
         \o WrittenUploads(p, Tail(extra_fonts))

\* Lines 1704-1727: the temporary directory is created; with extra_fonts the
\* files are written and the ContextVar is set, unless writing raised (after
\* k of the entries), in which case token stays None.
Setup(p) ==
    /\ pc[p] = "setup"
    /\ \E k \in 0..Len(req[p].extra_fonts) :
        LET uploads == req[p].extra_fonts
            ok == k = Len(uploads)
        IN  /\ fs' = [fs EXCEPT ![p] =
                    [exists |-> TRUE,
                     uploaded |-> WrittenUploads(p, SubSeq(uploads, 1, k)),
                     extracted |-> {}]]
            /\ IF uploads # <<>> /\ ok
               THEN /\ token' = [token EXCEPT ![p] =
                            [set |-> TRUE, old |-> extraFontDirs[ContextOf(p)]]]
                    /\ extraFontDirs' =
                            [extraFontDirs EXCEPT ![ContextOf(p)] = <<UploadedDir(p)>>]
               ELSE /\ token' = [token EXCEPT ![p] = NoToken]
                    /\ UNCHANGED extraFontDirs
    /\ fontfile_cache' = [fontfile_cache EXCEPT ![p] = {}]
    /\ font_obj_cache' = [font_obj_cache EXCEPT ![p] = {}]
    /\ replace_count' = [replace_count EXCEPT ![p] = 0]
    /\ loopIdx' = [loopIdx EXCEPT ![p] = 1]
    /\ pc' = [pc EXCEPT ![p] = "page"]
    /\ UNCHANGED << call, ret, debug >>
    /\ UNCHANGED << host, req, exc, page_indices, targets, matchIdx, docState,
                    pageLog, extractLog, outcome, lastMatch >>

\* The page the loop is at (0-based index, as in page_indices).
CurPage(p) == page_indices[p][loopIdx[p]]

\* What lines 1745-1776 store for one merged region whose page content is
\* hit = [style, text, expanded]: with a containing word found the original
\* is the word and the insert the word with the search string replaced;
\* otherwise the original is the text read back under the region.
TargetOf(r, hit) ==
    [ style |-> hit.style,
      expanded |-> hit.expanded,
      original |-> IF hit.expanded THEN hit.text ELSE Strip(hit.text),
      insert |-> IF hit.expanded
                 THEN _replace_case_insensitive(hit.text, Strip(r.find_text), r.replace_text)
                 ELSE r.replace_text ]

\* The reads of the page made by lines 1745-1776 for n regions, in order:
\* the word lookups, the style picks, the text read-backs.
AnalysisLog(ts) ==
    [i \in 1..Len(ts) |-> <<"words", i>>]
    \o [i \in 1..Len(ts) |-> <<"style", i>>]
    \o SelectSeq([i \in 1..Len(ts) |-> <<"text", i>>], LAMBDA e : ~ts[e[2]].expanded)

\* The locals of the page loop are not read once control has left the try
\* block; the model forgets them there.
DropLoopLocals(p) ==
    /\ targets' = [targets EXCEPT ![p] = <<>>]
    /\ matchIdx' = [matchIdx EXCEPT ![p] = 0]
    /\ fontfile_cache' = [fontfile_cache EXCEPT ![p] = {}]
    /\ font_obj_cache' = [font_obj_cache EXCEPT ![p] = {}]
    /\ pageLog' = [pageLog EXCEPT ![p] = <<>>]
    /\ extractLog' = [extractLog EXCEPT ![p] = <<>>]
    /\ lastMatch' = IF lastMatch.pass = p THEN NoMatch ELSE lastMatch

\* Lines 1730-1731 when the loop is over: control leaves the try block.
LoopEnd(p) ==
    /\ pc[p] = "page"
    /\ loopIdx[p] > Len(page_indices[p])
    /\ pc' = [pc EXCEPT ![p] = "finally"]
    /\ DropLoopLocals(p)
    /\ UNCHANGED << call, ret, debug >>
    /\ UNCHANGED << host, req, exc, page_indices, loopIdx, replace_count, token,
                    extraFontDirs, fs, docState, outcome >>

\* Only the regions widened to a whole word are counted.
CountedRegionsExpanded(ts) == Len(SelectSeq(ts, LAMBDA t : t.expanded))
\* Line 1777: replace_count += len(rects), one for every merged region.
CountedRegions(ts) == Len(ts)

\* Lines 1731-1777: search, merge, and (when the page has regions) the
\* analysis of every region and the count.
AnalysePage(p) ==
    /\ pc[p] = "page"
    /\ loopIdx[p] <= Len(page_indices[p])
    /\ \E n \in 0..req[p].doc.maxHits :
       \E hits \in [1..n -> req[p].doc.hits] :
        LET ts == [i \in 1..n |-> TargetOf(req[p], hits[i])] IN
        IF n = 0
        THEN /\ loopIdx' = [loopIdx EXCEPT ![p] = @ + 1]
             /\ targets' = [targets EXCEPT ![p] = <<>>]
             /\ pageLog' = [pageLog EXCEPT ![p] = <<>>]
             /\ UNCHANGED << pc, replace_count >>
        ELSE /\ targets' = [targets EXCEPT ![p] = ts]
             /\ pageLog' = [pageLog EXCEPT ![p] = AnalysisLog(ts)]
             /\ replace_count' = [replace_count EXCEPT ![p] = @ + CountedRegions(ts)]
             /\ pc' = [pc EXCEPT ![p] = "extract"]
             /\ UNCHANGED loopIdx
    /\ lastMatch' = IF lastMatch.pass = p THEN NoMatch ELSE lastMatch
    /\ UNCHANGED << call, ret, debug >>
    /\ UNCHANGED << host, req, exc, page_indices, matchIdx, fontfile_cache,
                    font_obj_cache, token, extraFontDirs, fs, docState,
                    extractLog, outcome >>

\* Lines 1780-1785: the normalized names the extraction loop would look up,
\* in order, given the names already cached.
RECURSIVE KeysToExtract(_, _)

\* Every named style looked up again, whatever the cache holds.
StoreKeyUncached(key, rest, have) ==
    IF key = <<>> THEN KeysToExtract(rest, have)
    ELSE <<key>> \o KeysToExtract(rest, have)
\* Lines 1784-1786: an empty key and a key the cache has are passed over.
StoreKey(key, rest, have) ==
    IF key = <<>> \/ key \in have THEN KeysToExtract(rest, have)
    ELSE <<key>> \o KeysToExtract(rest, have \cup {key})

\* Lines 1781-1783; a style without a name gives no key.
StyleKey(style) ==
    IF style.fontname = <<>> THEN <<>> ELSE _normalize_fontname(style.fontname)

KeysToExtract(ts, have) ==
    IF ts = <<>> THEN <<>>
    ELSE StoreKey(StyleKey(Head(ts).style), Tail(ts), have)

CachedKeys(p) == { e.key : e \in fontfile_cache[p] }

NeededKeys(p) == KeysToExtract(targets[p], CachedKeys(p))

\* _try_extract_embedded_fontfile: None, or the path of a file written to
\* this pass's temporary directory.
ExtractedFile(p, key, kind) ==
    IF kind = "none" THEN NoFile ELSE FontFile(p, "embedded", key, kind)

\* The cache and the temporary directory after the outcomes got.
StoreExtracted(p, need, got) ==
    /\ fontfile_cache' = [fontfile_cache EXCEPT ![p] = @ \cup got]
    /\ fs' = [fs EXCEPT ![p].extracted =
                @ \cup { e.file : e \in { g \in got : g.file # NoFile } }]
    /\ extractLog' = [extractLog EXCEPT ![p] = @ \o need]

ExtractKeys(p, need) ==
    \E kinds \in [Range(need) -> req[p].doc.embedded] :
        StoreExtracted(p, need,
            { [key |-> k, file |-> ExtractedFile(p, k, kinds[k])] : k \in Range(need) })

\* Lines 1779-1786.
ExtractFonts(p) ==
    /\ pc[p] = "extract"
    /\ ExtractKeys(p, NeededKeys(p))
    /\ pc' = [pc EXCEPT ![p] = "redact"]
    /\ UNCHANGED << call, ret, debug >>
    /\ UNCHANGED << host, req, exc, page_indices, loopIdx, targets, matchIdx,
                    font_obj_cache, replace_count, token, extraFontDirs,
                    docState, pageLog, outcome, lastMatch >>

\* Only the first region is redacted before the insertions start.
RedactEventsFirstOnly(ts) == << <<"redact", 1>> >>
\* Lines 1788-1790: a redaction annotation for every target, then all of
\* them applied.
RedactEvents(ts) == [i \in 1..Len(ts) |-> <<"redact", i>>]

\* Lines 1788-1790.
RedactPage(p) ==
    /\ pc[p] = "redact"
    /\ pageLog' = [pageLog EXCEPT ![p] = @ \o RedactEvents(targets[p])]
    /\ docState' = [docState EXCEPT ![p].redacted = @ \cup {CurPage(p)},
                                    ![p].annots = @ + Len(targets[p])]
    /\ matchIdx' = [matchIdx EXCEPT ![p] = 1]
    /\ pc' = [pc EXCEPT ![p] = "insert"]
    /\ UNCHANGED << call, ret, debug >>
    /\ UNCHANGED << host, req, exc, page_indices, loopIdx, targets,
                    fontfile_cache, font_obj_cache, replace_count, token,
                    extraFontDirs, fs, extractLog, outcome, lastMatch >>

\* The keys _get_font_obj adds to font_obj_cache during one loop body: one
\* for the glyph check of the embedded file, one for every attempted font
\* file that loads (its width is measured before the insertion).
FontObjName(step, forced) ==
    IF step.tier \in {"embedded", "embedded_last_resort"} THEN "emb"
    ELSE IF step.tier = "windows" THEN (IF forced THEN "win_choice" ELSE "win")
    ELSE IF step.tier = "windows_fallback" THEN "win"
    ELSE "sys"

FontObjKeysOf(m, attempts, page_index) ==
    { [file |-> m.embedded_fontfile, name |-> "detected", page |-> -1] :
        x \in { y \in {1} :
                  /\ m.embedded_fontfile # NoFile /\ m.forced_windows = NoFile
                  /\ Loads(m.embedded_fontfile)
                  /\ \E i \in 1..Len(m.insert_text) : ~IsSpace(m.insert_text[i]) } }
    \cup
    { [file |-> attempts[i].file,
       name |-> FontObjName(attempts[i], m.forced_windows # NoFile),
       page |-> page_index] :
        i \in { j \in 1..Len(attempts) :
                  attempts[j].cand = "file" /\ Loads(attempts[j].file) } }

FontObjKeys(body, page_index) == FontObjKeysOf(body.locals, body.attempts, page_index)

\* collect_debug as find_replace_text_with_count_and_debug passes it.
collect_debug == TRUE

\* `if collect_debug and not debug: debug.update({...})`, the first
\* statement of the try of every block: the map names the source and the
\* font of the attempt that is about to be made.  page and index tell the
\* match whose body wrote the map.
SourceLabel(step) == IF step.tier = "system" THEN step.file.src ELSE step.tier

DebugOf(m, step, page_index, index) ==
    [ set |-> TRUE, page |-> page_index, index |-> index,
      detectedFont |-> m.fontname, detectedBold |-> m.is_bold,
      detectedItalic |-> m.is_italic,
      usedSource |-> SourceLabel(step), usedFont |-> step ]

DebugUpdate(old, body, page_index, index) ==
    IF collect_debug /\ ~old.set
    THEN DebugOf(body.locals, body.attempts[1], page_index, index)
    ELSE old

\* Lines 1792-2097 for the match at matchIdx; after the last match of the
\* page the page loop moves on.
RecordBody(p, body) ==
    /\ debug' = [debug EXCEPT ![p] = DebugUpdate(@, body, CurPage(p), matchIdx[p])]
    /\ lastMatch' = [body EXCEPT !.pass = p] @@
            [page |-> CurPage(p), index |-> matchIdx[p]]
    /\ font_obj_cache' = [font_obj_cache EXCEPT ![p] =
            @ \cup FontObjKeys(body, CurPage(p))]
    /\ IF body.inserted
       THEN /\ pageLog' = [pageLog EXCEPT ![p] = Append(@, <<"insert", matchIdx[p]>>)]
            /\ docState' = [docState EXCEPT ![p].inserted = @ \cup {CurPage(p)}]
       ELSE UNCHANGED << pageLog, docState >>

\* The loop over the regions ends at the first one that was not inserted.
MoreMatchesUnlessFailed(p, body) == body.inserted /\ matchIdx[p] < Len(targets[p])
\* Line 1792: the for loop goes on to the next region whatever the body did
\* (every block swallows its exception, lines 1917, 1985, 2014, 2041, 2069,
\* 2096).
MoreMatches(p, body) == matchIdx[p] < Len(targets[p])

InsertMatch(p) ==
    /\ pc[p] = "insert"
    /\ \E raises \in BOOLEAN :
        RecordBody(p, LoopBody(p, targets[p][matchIdx[p]], raises))
    /\ IF MoreMatches(p, lastMatch')
       THEN /\ matchIdx' = [matchIdx EXCEPT ![p] = @ + 1]
            /\ UNCHANGED << pc, loopIdx >>
       ELSE /\ pc' = [pc EXCEPT ![p] = "page"]
            /\ loopIdx' = [loopIdx EXCEPT ![p] = @ + 1]
            /\ UNCHANGED matchIdx
    /\ UNCHANGED << call, ret >>
    /\ UNCHANGED << host, req, exc, page_indices, targets, fontfile_cache,
                    replace_count, token, extraFontDirs, fs, extractLog, outcome >>

\* An unguarded call inside the try block raises (load_page, search_for,
\* apply_redactions, a font-directory scan): control jumps to the finally
\* clause with the exception in flight.
LoopRaises(p) ==
    /\ pc[p] \in {"page", "extract", "redact", "insert"}
    /\ loopIdx[p] <= Len(page_indices[p])
    /\ exc' = [exc EXCEPT ![p] = "Exception"]
    /\ pc' = [pc EXCEPT ![p] = "finally"]
    /\ DropLoopLocals(p)
    /\ UNCHANGED << call, ret, debug >>
    /\ UNCHANGED << host, req, page_indices, loopIdx, replace_count, token,
                    extraFontDirs, fs, docState, outcome >>

\* A reset that leaves the variable as the pass set it.
ContextVarResetKept(p) == extraFontDirs[ContextOf(p)]
\* Line 2102: _EXTRA_FONT_DIRS.reset(token) gives the variable the value it
\* had before the set that made the token.
ContextVarReset(p) == token[p].old

\* Lines 2099-2104: the finally clause.
ResetToken(p) ==
    /\ pc[p] = "finally"
    /\ IF token[p].set
       THEN extraFontDirs' = [extraFontDirs EXCEPT ![ContextOf(p)] = ContextVarReset(p)]
       ELSE UNCHANGED extraFontDirs
    /\ pc' = [pc EXCEPT ![p] = "cleanup"]
    /\ UNCHANGED << call, ret, debug >>
    /\ UNCHANGED << host, req, exc, page_indices, loopIdx, targets, matchIdx,
                    fontfile_cache, font_obj_cache, replace_count, token, fs,
                    docState, pageLog, extractLog, outcome, lastMatch >>

\* Control goes on to line 2106 whatever happened in the with block.
ReachesSerializeAlways(p) == TRUE
\* Whether control goes on to line 2106 after the with block.
ReachesSerialize(p) == exc[p] = "none"

\* The exit of `with tempfile.TemporaryDirectory(...)`: the directory and
\* its files are removed; an exception in flight leaves the function.
CleanupTmp(p) ==
    /\ pc[p] = "cleanup"
    /\ fs' = [fs EXCEPT ![p] = NoTmp]
    /\ IF ReachesSerialize(p)
       THEN /\ pc' = [pc EXCEPT ![p] = "serialize"]
            /\ UNCHANGED outcome
       ELSE /\ pc' = [pc EXCEPT ![p] = "done"]
            /\ outcome' = [outcome EXCEPT ![p] =
                    [kind |-> "error", bytes |-> FALSE, error |-> exc[p], count |-> 0]]
    /\ UNCHANGED << call, ret, debug >>
    /\ UNCHANGED << host, req, exc, page_indices, loopIdx, targets, matchIdx,
                    fontfile_cache, font_obj_cache, replace_count, token,
                    extraFontDirs, docState, pageLog, extractLog, lastMatch >>

\* Lines 2106-2108.
Serialize(p) ==
    /\ pc[p] = "serialize"
    /\ outcome' = [outcome EXCEPT ![p] =
            [kind |-> "returned", bytes |-> TRUE, error |-> "none",
             count |-> replace_count[p]]]
    /\ pc' = [pc EXCEPT ![p] = "done"]
    /\ UNCHANGED << call, ret, debug >>
    /\ UNCHANGED << host, req, exc, page_indices, loopIdx, targets, matchIdx,
                    fontfile_cache, font_obj_cache, replace_count, token,
                    extraFontDirs, fs, docState, pageLog, extractLog, lastMatch >>

Next ==
    \E p \in Passes :
        \/ Validate(p)
        \/ Setup(p)
        \/ LoopEnd(p)
        \/ AnalysePage(p)
        \/ ExtractFonts(p)
        \/ RedactPage(p)
        \/ InsertMatch(p)
        \/ LoopRaises(p)
        \/ ResetToken(p)
        \/ CleanupTmp(p)
        \/ Serialize(p)

(***************************************************************************)
(* Inputs: hosts, documents and requests the runs start from.              *)
(***************************************************************************)
WinFile(kind) == IF kind = "none" THEN NoFile ELSE FontFile("host", "windows", <<"w">>, kind)
NativeFile(kind) == IF kind = "none" THEN NoFile ELSE FontFile("host", "system", <<"s">>, kind)
BundledDir ==
    [owner |-> "host", src |-> "bundled",
     files |-> <<FontFile("host", "bundled", <<"c", "r">>, "full")>>]

\* The directory PDF_EDITOR_FONTS_DIR names, holding a bold face.
ConfiguredDir ==
    [owner |-> "host", src |-> "custom",
     files |-> <<FontFile("host", "custom", <<"c", "d">>, "full")>>]

\* A host without WINDIR: no Windows font is ever found.
PosixHosts ==
    { [os |-> "posix",
       windows |-> [detected |-> NoFile, mapped |-> NoFile, choice |-> NoFile],
       native |-> NativeFile(n), dirs |-> d] :
        n \in {"none", "full", "broken"},
        d \in {<<>>, <<BundledDir>>, <<ConfiguredDir, BundledDir>>} }

NtHosts ==
    { [os |-> "nt",
       windows |-> [detected |-> WinFile(w[1]), mapped |-> WinFile(w[2]),
                    choice |-> WinFile(c)],
       native |-> NativeFile(n), dirs |-> d] :
        w \in { <<"full", "none">>, <<"partial", "none">>, <<"broken", "none">>,
                <<"none", "full">>, <<"none", "none">> },
        c \in {"none", "full", "partial", "broken"},
        n \in {"none", "full"}, d \in {<<>>} }

Style(fontname, bold, italic, builtin) ==
    [fontname |-> fontname, bold |-> bold, italic |-> italic, builtin |-> builtin]

\* no text run under the region; a subset font; the same family not subset,
\* bold by its flags; a Base-14 name, italic by its flags; an unknown family,
\* bold by its name.
SampleStyles ==
    { Style(<<>>, FALSE, FALSE, FALSE),
      Style(<<"X", "+", "C">>, FALSE, FALSE, FALSE),
      Style(<<"/", "C">>, TRUE, FALSE, FALSE),
      Style(<<"T">>, FALSE, TRUE, TRUE),
      Style(<<"F", "D">>, FALSE, FALSE, FALSE) }

Hit(style, text, expanded) == [style |-> style, text |-> text, expanded |-> expanded]

\* Page content under a region found for the search string "a": the word
\* "ab", the word "A", or the read-back text "a ".
SampleHits ==
    { Hit(st, tx[1], tx[2]) :
        st \in SampleStyles,
        tx \in { << <<"a", "b">>, TRUE >>, << <<"A">>, TRUE >>, << <<"a", " ">>, FALSE >> } }

Upload(name, has_data, font_ext, kind) ==
    [name |-> name, has_data |-> has_data, font_ext |-> font_ext, kind |-> kind]

Doc(valid, page_count, hits, embedded, maxHits) ==
    [valid |-> valid, page_count |-> page_count, hits |-> hits,
     embedded |-> embedded, maxHits |-> maxHits]

Request(find_text, replace_text, scope, from_page, to_page, font_choice, extra_fonts, doc) ==
    [find_text |-> find_text, replace_text |-> replace_text, scope |-> scope,
     from_page |-> from_page, to_page |-> to_page, font_choice |-> font_choice,
     extra_fonts |-> extra_fonts, doc |-> doc]

IdleReq ==
    Request(<<>>, <<>>, "all", <<>>, <<>>, <<>>, <<>>, Doc(FALSE, 0, {}, {}, 0))

\* No call of a helper outside a find/replace pass is in flight.
NoCall == [op |-> "none", docs |-> <<>>, items |-> <<>>, arg |-> <<>>]
NoRet == [kind |-> "pending", error |-> "none", pages |-> <<>>]
NoHelperCall == call = NoCall /\ ret = NoRet

InitState ==
    /\ exc = [p \in Passes |-> "none"]
    /\ page_indices = [p \in Passes |-> <<>>]
    /\ loopIdx = [p \in Passes |-> 0]
    /\ targets = [p \in Passes |-> <<>>]
    /\ matchIdx = [p \in Passes |-> 0]
    /\ fontfile_cache = [p \in Passes |-> {}]
    /\ font_obj_cache = [p \in Passes |-> {}]
    /\ replace_count = [p \in Passes |-> 0]
    /\ token = [p \in Passes |-> NoToken]
    /\ extraFontDirs = [c \in { ContextOf(p) : p \in Passes } |-> <<>>]
    /\ fs = [p \in Passes |-> NoTmp]
    /\ docState = [p \in Passes |-> NoDocState]
    /\ debug = [p \in Passes |-> NoDebug]
    /\ pageLog = [p \in Passes |-> <<>>]
    /\ extractLog = [p \in Passes |-> <<>>]
    /\ outcome = [p \in Passes |-> NoOutcome]
    /\ lastMatch = NoMatch

\* The choice file of a host matters only to a request with a font choice;
\* uploads are tried on the hosts without Windows fonts.
Compatible(h, r) ==
    /\ IsExplicitChoice(r.font_choice) \/ h.windows.choice = NoFile
    /\ h.os = "posix" \/ r.extra_fonts = <<>>

Auto == <<"a", "u", "t", "o">>

\* One pass over a one-page document with one region, on every host, with
\* every sample of page content: the font chain in full.
FontRequests ==
    { Request(<<"a">>, rt, "all", <<>>, <<>>, fc, ef,
              Doc(TRUE, 1, SampleHits, {"none", "full", "partial", "broken"}, 1)) :
        rt \in {<<"a">>, <<"a", "b">>},
        fc \in {Auto, <<"C">>},
        ef \in {<<>>, <<Upload(<<"c">>, TRUE, TRUE, "full")>>} }

InitFonts ==
    /\ \E h \in PosixHosts \cup NtHosts, r \in FontRequests :
        /\ Compatible(h, r)
        /\ host = h
        /\ req = [p \in Passes |-> IF p = "p1" THEN r ELSE IdleReq]
    /\ pc = [p \in Passes |-> IF p = "p1" THEN "start" ELSE "idle"]
    /\ InitState
    /\ NoHelperCall

SpecFonts == InitFonts /\ [][Next]_vars

\* Whole passes: documents of up to MaxPages pages with up to MaxMatches
\* regions a page, every shape of scope and page range, with and without
\* uploads and a font choice, on a host with system fonts only and on a
\* host with Windows fonts.
PassHosts ==
    { h \in PosixHosts : h.native = NativeFile("full") /\ h.dirs = <<>> }
    \cup { h \in NtHosts : /\ h.windows.detected = WinFile("broken")
                           /\ h.windows.choice = WinFile("full")
                           /\ h.native = NoFile }

PassHits ==
    { Hit(Style(<<"X", "+", "C">>, FALSE, FALSE, FALSE), <<"a", "b">>, TRUE),
      Hit(Style(<<"/", "C">>, TRUE, FALSE, FALSE), <<"a", " ">>, FALSE) }

OptPages == {<<>>} \cup { <<n>> : n \in 0..(MaxPages + 1) }

PassUploads ==
    { <<>>,
      << Upload(<<"c">>, FALSE, TRUE, "full"), Upload(<<"c">>, TRUE, TRUE, "full") >> }

PassRequests ==
    { Request(ft, <<"a", "b">>, sc, fp, tp, fc, ef,
              Doc(v, n, PassHits, {"none", "partial"}, MaxMatches)) :
        ft \in {<<>>, <<"a">>}, sc \in {"all", "range", "pages"},
        fp \in OptPages, tp \in OptPages, fc \in {<<>>, <<"C">>},
        ef \in PassUploads, v \in BOOLEAN, n \in 1..MaxPages }

\* Arguments that do not reach the checks they would fail are left at one
\* value, and scope "all" is tried with no page range and with an inverted one.
PassRequestShape(r) ==
    /\ r.find_text = <<>> =>
            r.doc.valid /\ r.scope = "all" /\ r.from_page = <<>> /\ r.to_page = <<>>
    /\ ~r.doc.valid => r.scope = "all" /\ r.from_page = <<>> /\ r.to_page = <<>>
    /\ r.scope = "pages" => r.from_page = <<>> /\ r.to_page = <<>>
    /\ r.scope = "all" =>
            << r.from_page, r.to_page >> \in { << <<>>, <<>> >>, << <<2>>, <<1>> >> }
    /\ ValidationError(r) # "none" =>
            r.font_choice = <<>> /\ r.extra_fonts = <<>> /\ r.doc.page_count = MaxPages

Init ==
    /\ \E h \in PassHosts, r \in PassRequests :
        /\ PassRequestShape(r)
        /\ IsExplicitChoice(r.font_choice) <=> h.os = "nt"
        /\ Compatible(h, r)
        /\ host = h
        /\ req = [p \in Passes |-> IF p = "p1" THEN r ELSE IdleReq]
    /\ pc = [p \in Passes |-> IF p = "p1" THEN "start" ELSE "idle"]
    /\ InitState
    /\ NoHelperCall

Spec == Init /\ [][Next]_vars

(***************************************************************************)
(* Properties of the font chain, read off the record of the loop body that *)
(* ran last (lastMatch).                                                   *)
(***************************************************************************)
HasMatch == lastMatch.pass # "none"
LastAttempt == lastMatch.attempts[Len(lastMatch.attempts)]
FirstAttempt == lastMatch.attempts[1]
NoFontChoice == ~IsExplicitChoice(req[lastMatch.pass].font_choice)

\* The font files of a match's chain: forced, embedded, Windows, and the
\* custom-directory or system file.
ChainFiles(m) ==
    { m.forced_windows, m.embedded_fontfile, m.windows_fontfile, m.system_fontfile }
        \ {NoFile}

\* C1: the font file a match is rendered with never lacks a glyph of the
\* inserted text while another font file of the match's chain covers all of
\* the text.
C1_GlyphCoverageGating ==
    (HasMatch /\ lastMatch.inserted /\ LastAttempt.cand = "file") =>
        LET m == lastMatch.locals IN
        \/ _font_supports_text(m.insert_text, LastAttempt.file)
        \/ \A f \in ChainFiles(m) : ~_font_supports_text(m.insert_text, f)

\* C2: with no font file resolved for a match, the attempts are the builtin
\* candidates in the order detected name, Base-14 mapping, "helv", up to
\* and including the first that inserts; the match is inserted unless
\* page.insert_text raises for every font, and no exception leaves the body.
NoFileResolved(m) ==
    /\ m.embedded_fontfile = NoFile /\ m.windows_fontfile = NoFile
    /\ m.system_fontfile = NoFile /\ m.forced_windows = NoFile

BuiltinOrder ==
    LET a == lastMatch.attempts
        m == lastMatch.locals
        rank(c) == IF c = "fontname" THEN 1 ELSE IF c = "mapped" THEN 2 ELSE 3
    IN  /\ \A i \in 1..Len(a) : a[i].tier = "builtin"
        /\ \A i \in 1..Len(a), j \in 1..Len(a) : i < j => rank(a[i].cand) < rank(a[j].cand)
        /\ (a[1].cand = "fontname") = (m.fontname # <<>>)
        /\ (\E i \in 1..Len(a) : a[i].cand = "mapped") =>  m.mapped_font # None
        /\ (a[1].cand = "helv") = (m.fontname = <<>> /\ m.mapped_font = None)
        /\ \A i \in 1..Len(a) :
               (a[i].cand = "helv" /\ i > 1 /\ a[i - 1].cand = "fontname")
                   => m.mapped_font = None

C2_BuiltinFallback ==
    (HasMatch /\ NoFileResolved(lastMatch.locals)) =>
        /\ Len(lastMatch.attempts) >= 1
        /\ BuiltinOrder
        /\ \A i \in 1..(Len(lastMatch.attempts) - 1) :
               ~InsertSucceeds(lastMatch.locals, lastMatch.attempts[i], lastMatch.raises)
        /\ ~lastMatch.inserted => (LastAttempt.cand = "helv" /\ lastMatch.raises)
        /\ ~lastMatch.raises => lastMatch.inserted
        /\ exc[lastMatch.pass] = "none"
        /\ pc[lastMatch.pass] \in {"insert", "page"}

\* The detected name is no builtin name, its mapping is: the second
\* candidate inserted the text.
C2_Witness ==
    /\ HasMatch /\ NoFileResolved(lastMatch.locals) /\ lastMatch.inserted
    /\ Len(lastMatch.attempts) = 2
    /\ FirstAttempt.cand = "fontname" /\ LastAttempt.cand = "mapped"

\* The place of a block in the loop body.
TierRank(tier) ==
    IF tier = "embedded" THEN 1
    ELSE IF tier = "windows" THEN 2
    ELSE IF tier = "embedded_last_resort" THEN 3
    ELSE IF tier = "windows_fallback" THEN 4
    ELSE IF tier = "system" THEN 5
    ELSE 6

IsEmbeddedTier(tier) == tier \in {"embedded", "embedded_last_resort"}

CustomFileOfMatch ==
    _try_custom_fontfile_with_source(lastMatch.pass, lastMatch.locals.fontname,
        lastMatch.locals.is_bold, lastMatch.locals.is_italic)

NativeFileOfMatch == _try_system_fontfile_native(lastMatch.locals.fontname)

ResolvedChoice ==
    LET c == LowerStr(Strip(req[lastMatch.pass].font_choice)) IN
    IF host.os = "nt" THEN host.windows.choice
    ELSE _try_system_fontfile_with_source(lastMatch.pass, c,
             lastMatch.locals.is_bold, lastMatch.locals.is_italic)

ExplicitChoice ==
    LET c == req[lastMatch.pass].font_choice IN
    c # <<>> /\ LowerStr(Strip(c)) # Auto

\* C8 as stated: with an explicit font choice every match is rendered with
\* the font resolved for the choice, and the embedded font is never the
\* first font attempted.
C8_ForcedChoiceAsStated ==
    (HasMatch /\ ExplicitChoice) =>
        /\ lastMatch.inserted
        /\ LastAttempt.cand = "file" /\ LastAttempt.file = ResolvedChoice
        /\ ResolvedChoice # NoFile
        /\ ~IsEmbeddedTier(FirstAttempt.tier)

\* C8, amended: with an explicit font choice that resolves to a font file,
\* that file is the first font attempted for every match, whatever the
\* embedded font and its coverage, and the match is rendered with it when
\* the file loads and the insertion does not raise; the embedded font is the
\* first font attempted only when the choice resolves to no file.
C8_ForcedChoice ==
    (HasMatch /\ ExplicitChoice) =>
        /\ lastMatch.locals.forced_windows = ResolvedChoice
        /\ ResolvedChoice # NoFile =>
               /\ FirstAttempt = Step("windows", "file", ResolvedChoice)
               /\ (Loads(ResolvedChoice) /\ ~lastMatch.raises) =>
                      (lastMatch.inserted /\ Len(lastMatch.attempts) = 1)
        /\ IsEmbeddedTier(FirstAttempt.tier) => ResolvedChoice = NoFile

\* The chosen font lacks a glyph of the text, the embedded font has them
\* all: the match is rendered with the chosen font.
C8_Witness ==
    /\ HasMatch /\ ExplicitChoice /\ lastMatch.inserted
    /\ ResolvedChoice # NoFile /\ LastAttempt.file = ResolvedChoice
    /\ Len(lastMatch.attempts) = 1
    /\ ~_font_supports_text(lastMatch.locals.insert_text, ResolvedChoice)
    /\ lastMatch.locals.embedded_fontfile # NoFile
    /\ _font_supports_text(lastMatch.locals.insert_text, lastMatch.locals.embedded_fontfile)

\* C9: with no font choice and an embedded file that covers the text, the
\* embedded file is not the first font attempted exactly when the detected
\* name is a subset name and the replacement brings a character the
\* original text has not.
C9_SubsetAndNewChars ==
    (/\ HasMatch /\ NoFontChoice
     /\ lastMatch.locals.embedded_fontfile # NoFile
     /\ _font_supports_text(lastMatch.locals.insert_text, lastMatch.locals.embedded_fontfile))
    => (~IsEmbeddedTier(FirstAttempt.tier)
            <=> (lastMatch.locals.is_subset_font /\ lastMatch.locals.introduces_new))

(***************************************************************************)
(* Properties of whole passes.                                             *)
(***************************************************************************)
InLoop(p) == pc[p] \in {"page", "extract", "redact", "insert"}
Started(p) == pc[p] \notin {"idle", "start"}

\* C3: a pass returns bytes only from a page loop that ran over every page
\* without an exception, an error comes with no bytes, and an argument the
\* checks reject ends the pass with PdfOpError before any page is redacted
\* or written and before the temporary directory exists.
C3_BytesOnlyAfterLoop ==
    \A p \in Passes :
        /\ outcome[p].bytes =>
               /\ outcome[p].kind = "returned" /\ outcome[p].error = "none"
               /\ exc[p] = "none" /\ pc[p] = "done"
               /\ loopIdx[p] > Len(page_indices[p])
               /\ page_indices[p] = PageIndices(req[p])
        /\ outcome[p].kind = "error" =>
               ~outcome[p].bytes /\ outcome[p].error # "none" /\ pc[p] = "done"
        /\ (Started(p) /\ ValidationError(req[p]) # "none") =>
               /\ outcome[p].kind = "error"
               /\ outcome[p].error = ValidationError(req[p])
               /\ docState[p] = NoDocState
               /\ fs[p] = NoTmp /\ pc[p] = "done"
        /\ (pc[p] = "done" /\ exc[p] # "none") => outcome[p].kind = "error"

\* Bytes are returned from a pass that redacted every page of the document.
C3_Witness ==
    /\ outcome["p1"].bytes /\ outcome["p1"].count >= MaxPages
    /\ Cardinality(docState["p1"].redacted) = MaxPages

\* C5: when a pass that created its temporary directory has ended, by
\* return or by an exception out of the page loop, the directory and every
\* file in it are gone and the ContextVar has its value of before the pass.
C5_TmpDirAndSettingReleased ==
    \A p \in Passes :
        (pc[p] \in {"serialize", "done"}) =>
            /\ fs[p] = NoTmp
            /\ extraFontDirs[ContextOf(p)] = <<>>
            /\ token[p].set => token[p].old = extraFontDirs[ContextOf(p)]

\* A pass with uploaded fonts ended by an exception out of the page loop,
\* after a page was redacted.
C5_Witness ==
    /\ pc["p1"] = "done" /\ exc["p1"] = "Exception"
    /\ token["p1"].set /\ docState["p1"].redacted # {}
    /\ fs["p1"] = NoTmp

\* C6: on a page, the reads of every region (word lookup, style, text
\* read-back) precede every redaction, every region is redacted before the
\* first insertion, and the log of the page never goes back a phase.
PhaseRank(e) ==
    IF e[1] \in {"words", "style", "text"} THEN 1
    ELSE IF e[1] = "redact" THEN 2 ELSE 3

C6_PhaseOrder ==
    \A p \in Passes :
        LET log == pageLog[p]
            n == Len(targets[p])
        IN  /\ \A i \in 1..Len(log), j \in 1..Len(log) :
                   i < j => PhaseRank(log[i]) <= PhaseRank(log[j])
            /\ \A j \in 1..Len(log) :
                   /\ PhaseRank(log[j]) >= 2 =>
                          \A r \in 1..n : \E i \in 1..(j - 1) : log[i] = <<"style", r>>
                   /\ PhaseRank(log[j]) = 3 =>
                          \A r \in 1..n : \E i \in 1..(j - 1) : log[i] = <<"redact", r>>
            /\ docState[p].inserted \subseteq docState[p].redacted

\* A page with MaxMatches regions, one of them read back, all inserted.
C6_Witness ==
    LET log == pageLog["p1"] IN
    /\ Len(targets["p1"]) = MaxMatches
    /\ \E i \in 1..Len(log) : log[i][1] = "text"
    /\ \A r \in 1..MaxMatches : \E i \in 1..Len(log) : log[i] = <<"insert", r>>

\* C10: within a pass no normalized name is extracted twice, the cache
\* holds one outcome (a file or none) for each name extracted, an outcome
\* once stored is kept for the rest of the page loop, and every loop body
\* takes its embedded file from the cache.
NoDuplicates(seq) ==
    \A i \in 1..Len(seq), j \in 1..Len(seq) : i # j => seq[i] # seq[j]

C10_CacheState ==
    /\ \A p \in Passes :
        /\ NoDuplicates(extractLog[p])
        /\ InLoop(p) => CachedKeys(p) = Range(extractLog[p])
        /\ \A e \in fontfile_cache[p], f \in fontfile_cache[p] : e.key = f.key => e = f
    /\ (HasMatch /\ lastMatch.locals.fontname # <<>>) =>
           LET key == _normalize_fontname(lastMatch.locals.fontname) IN
           /\ lastMatch.locals.embedded_fontfile
                  = CacheGet(fontfile_cache[lastMatch.pass], key)
           /\ key # <<>> => key \in Range(extractLog[lastMatch.pass])

C10_CacheStep ==
    \A p \in Passes :
        (InLoop(p) /\ pc'[p] \in {"page", "extract", "redact", "insert"}) =>
            /\ fontfile_cache[p] \subseteq fontfile_cache'[p]
            /\ Len(extractLog[p]) <= Len(extractLog'[p])
            /\ SubSeq(extractLog'[p], 1, Len(extractLog[p])) = extractLog[p]

C10_ExtractOnce == [](C10_CacheState) /\ [][C10_CacheStep]_vars

\* A region of a later page, in a font whose name was extracted on an
\* earlier page, takes the stored outcome: one extraction, two pages.
C10_Witness ==
    /\ HasMatch /\ lastMatch.pass = "p1"
    /\ Cardinality(docState["p1"].redacted) >= 2
    /\ Len(extractLog["p1"]) = 1
    /\ lastMatch.locals.fontname # <<>>
    /\ lastMatch.locals.embedded_fontfile = NoFile
    /\ CacheHas(fontfile_cache["p1"], _normalize_fontname(lastMatch.locals.fontname))

(***************************************************************************)
(* Two passes at once.                                                     *)
(***************************************************************************)
\* Two requests in flight on one host with a system font, each for a
\* one-page document with at most one region in font "C"; each request
\* comes with or without an uploaded font for that family.
ConcHosts ==
    { h \in PosixHosts : h.native = NativeFile("full") /\ h.dirs = <<>> }

ConcRequests ==
    { Request(<<"a">>, <<"a", "b">>, "all", <<>>, <<>>, <<>>, ef,
              Doc(TRUE, 1,
                  {Hit(Style(<<"/", "C">>, FALSE, FALSE, FALSE), <<"a", "b">>, TRUE)},
                  {"none", "full"}, 1)) :
        ef \in {<<>>, <<Upload(<<"c">>, TRUE, TRUE, "full")>>} }

InitConc ==
    /\ \E h \in ConcHosts, r1 \in ConcRequests, r2 \in ConcRequests :
        /\ host = h
        /\ req = [p \in Passes |-> IF p = "p1" THEN r1 ELSE r2]
    /\ pc = [p \in Passes |-> "start"]
    /\ InitState
    /\ NoHelperCall

SpecConc == InitConc /\ [][Next]_vars

\* The font files a pass has in hand: those in the directories its lookups
\* scan, in its two caches, and in the attempts of its loop body.
Foreign(p, file) == file.owner \notin {p, "host"}

FilesSeen(p) ==
    UNION { Range(DirListing(d)) :
              d \in { x \in Range(_custom_fonts_dirs_with_source(p)) : CanList(x) } }
    \cup { e.file : e \in fontfile_cache[p] }
    \cup { e.file : e \in font_obj_cache[p] }
    \cup (IF lastMatch.pass = p
          THEN { lastMatch.attempts[i].file : i \in 1..Len(lastMatch.attempts) }
               \cup ChainFiles(lastMatch.locals)
          ELSE {})

\* C4: while passes run at once, the uploaded-font directories a pass scans
\* are its own, and no file in its directory listings, its font file cache,
\* its font object cache or its insertion attempts was uploaded with or
\* extracted from another pass's document.
C4_PassIsolation ==
    \A p \in Passes :
        /\ InLoop(p) =>
               \A d \in Range(_custom_fonts_dirs_with_source(p)) :
                   d.owner \in {p, "host"}
        /\ \A f \in FilesSeen(p) : ~Foreign(p, f)

\* Both passes are in their page loops, each with an uploaded font of its
\* own, and one has rendered a match with its own upload while the other's
\* directory still exists.
C4_Witness ==
    /\ InLoop("p1") /\ InLoop("p2")
    /\ token["p1"].set /\ token["p2"].set
    /\ fs["p1"].uploaded # <<>> /\ fs["p2"].uploaded # <<>>
    /\ HasMatch /\ lastMatch.inserted
    /\ LastAttempt.file.src = "uploaded"

ApiStatus(out) ==
    IF out.kind = "returned" THEN 200
    ELSE IF out.error = "PdfOpError" THEN 400
    ELSE 500

\* C12: every failure of a find/replace pass, the failure to open the
\* source document included, reaches the caller as PdfOpError, answered
\* with HTTP 400.
C12_SingleErrorKind ==
    \A p \in Passes :
        outcome[p].kind = "error" =>
            /\ outcome[p].error = "PdfOpError"
            /\ ApiStatus(outcome[p]) = 400


(***************************************************************************)
(* Page-collection operations: merge_pdfs, reorder_pages, remove_pages and *)
(* the parsers of their page lists.  A document is the sequence of its     *)
(* pages; a page is named by the input it came from and its number there.  *)
(***************************************************************************)
passVars == << host, req, pc, exc, page_indices, loopIdx, targets, matchIdx,
               fontfile_cache, font_obj_cache, replace_count, token,
               extraFontDirs, fs, docState, pageLog, extractLog, outcome,
               lastMatch, debug >>

\* str.split(sep): the pieces of s between the occurrences of sep.
RECURSIVE SplitOn(_, _, _)
SplitOn(s, sep, cur) ==
    IF s = <<>> THEN << cur >>
    ELSE IF Head(s) = sep THEN << cur >> \o SplitOn(Tail(s), sep, <<>>)
    ELSE SplitOn(Tail(s), sep, Append(cur, Head(s)))

\* str.split(sep, 1): the text before the first sep and the text after it.
SplitOnce(s, sep) ==
    << SubSeq(s, 1, FirstIndex(s, sep) - 1),
       SubSeq(s, FirstIndex(s, sep) + 1, Len(s)) >>

NonEmpty(x) == x # <<>>

\* [p.strip() for p in cleaned.split(",") if p.strip()]
StrippedParts(pieces) ==
    SelectSeq([i \in 1..Len(pieces) |-> Strip(pieces[i])], NonEmpty)

Digits == << "0", "1", "2", "3", "4", "5", "6", "7", "8", "9" >>
IsDigit(ch) == ch \in Range(Digits)

RECURSIVE DecimalValue(_, _)
DecimalValue(s, acc) ==
    IF s = <<>> THEN acc
    ELSE DecimalValue(Tail(s), 10 * acc + (FirstIndex(Digits, Head(s)) - 1))

IntFailed == [ok |-> FALSE, val |-> 0]

\* int(str): surrounding whitespace is dropped, one leading sign is accepted,
\* and what remains must be one or more decimal digits.
UnsignedInt(body, sign) ==
    IF body # <<>> /\ \A i \in 1..Len(body) : IsDigit(body[i])
    THEN [ok |-> TRUE, val |-> sign * DecimalValue(body, 0)]
    ELSE IntFailed

SignedInt(t) ==
    IF t # <<>> /\ Head(t) = "-" THEN UnsignedInt(Tail(t), -1)
    ELSE IF t # <<>> /\ Head(t) = "+" THEN UnsignedInt(Tail(t), 1)
    ELSE UnsignedInt(t, 1)

PyInt(value) == SignedInt(Strip(value))

\* _parse_positive_int: PdfOpError when int() fails or the value is <= 0.
PositiveOrFail(parsed) == IF parsed.ok /\ parsed.val > 0 THEN parsed ELSE IntFailed

_parse_positive_int(value) == PositiveOrFail(PyInt(value))

ParseFailed == [ok |-> FALSE, val |-> <<>>]

\* The loop of parse_reorder: each part is a positive integer inside the
\* document and not seen before.
RECURSIVE ReorderLoop(_, _, _)
DuplicateAllowed(idx, result) == FALSE

DuplicateRejected(idx, result) == idx \in Range(result)

ReorderStep(parts, page_count, result, one_based) ==
    IF ~one_based.ok THEN ParseFailed
    ELSE IF one_based.val - 1 < 0 \/ one_based.val - 1 >= page_count THEN ParseFailed
    ELSE IF DuplicateRejected(one_based.val - 1, result) THEN ParseFailed
    ELSE ReorderLoop(Tail(parts), page_count, Append(result, one_based.val - 1))

ReorderLoop(parts, page_count, result) ==
    IF parts = <<>> THEN [ok |-> TRUE, val |-> result]
    ELSE ReorderStep(parts, page_count, result, _parse_positive_int(Head(parts)))

ReorderParts(parts, page_count) ==
    IF Len(parts) # page_count THEN ParseFailed
    ELSE ReorderLoop(parts, page_count, <<>>)

\* parse_reorder(order, page_count): the 0-based page order, or PdfOpError.
parse_reorder(order, page_count) ==
    IF page_count <= 0 THEN ParseFailed
    ELSE IF Strip(order) = <<>> THEN ParseFailed
    ELSE ReorderParts(StrippedParts(SplitOn(Strip(order), ",", <<>>)), page_count)

RangesFailed == [ok |-> FALSE, val |-> {}]

\* One part of parse_page_ranges: a range start-end, or a single page.
RangeIndices(start, end, page_count) ==
    IF ~start.ok \/ ~end.ok THEN RangesFailed
    ELSE IF end.val < start.val THEN RangesFailed
    ELSE IF \E one_based \in start.val..end.val :
                one_based - 1 < 0 \/ one_based - 1 >= page_count
         THEN RangesFailed
    ELSE [ok |-> TRUE, val |-> { one_based - 1 : one_based \in start.val..end.val }]

RangePart(pieces, page_count) ==
    RangeIndices(_parse_positive_int(Strip(pieces[1])),
                 _parse_positive_int(Strip(pieces[2])), page_count)

SinglePart(one_based, page_count) ==
    IF ~one_based.ok THEN RangesFailed
    ELSE IF one_based.val - 1 < 0 \/ one_based.val - 1 >= page_count THEN RangesFailed
    ELSE [ok |-> TRUE, val |-> { one_based.val - 1 }]

PartIndices(part, page_count) ==
    IF "-" \in Range(part) THEN RangePart(SplitOnce(part, "-"), page_count)
    ELSE SinglePart(_parse_positive_int(part), page_count)

RECURSIVE RangesLoop(_, _, _)
RangesStep(parts, page_count, indices, found) ==
    IF ~found.ok THEN RangesFailed
    ELSE RangesLoop(Tail(parts), page_count, indices \cup found.val)

RangesLoop(parts, page_count, indices) ==
    IF parts = <<>> THEN [ok |-> TRUE, val |-> indices]
    ELSE RangesStep(parts, page_count, indices, PartIndices(Head(parts), page_count))

\* parse_page_ranges(pages, page_count): the set of 0-based pages, or
\* PdfOpError.
parse_page_ranges(pages, page_count) ==
    IF page_count <= 0 THEN RangesFailed
    ELSE IF Strip(pages) = <<>> THEN RangesFailed
    ELSE RangesLoop(StrippedParts(SplitOn(Strip(pages), ",", <<>>)), page_count, {})

\* What a page-collection call hands back: the pages of the returned
\* document, a PdfOpError, or another exception.
Returned(pages) == [kind |-> "returned", error |-> "none", pages |-> pages]
RaisedPdfOpError == [kind |-> "error", error |-> "PdfOpError", pages |-> <<>>]
RaisedException == [kind |-> "error", error |-> "Exception", pages |-> <<>>]

\* out.tobytes(...): fitz refuses to write a document that has no page
\* (ValueError, "cannot save with zero pages").
Tobytes(pages) == IF pages = <<>> THEN RaisedException ELSE Returned(pages)

\* reorder_pages: one insert_pdf of a single page per entry of the order.
Reordered(src, page_order) ==
    [i \in 1..Len(page_order) |-> src.pages[page_order[i] + 1]]

ReorderWith(src, page_order) ==
    IF ~page_order.ok THEN RaisedPdfOpError
    ELSE Tobytes(Reordered(src, page_order.val))

reorder_pages(src, order) ==
    IF ~src.valid THEN RaisedException
    ELSE ReorderWith(src, parse_reorder(order, Len(src.pages)))

\* remove_pages: every page whose index is not in to_remove, in order.
KeptFrom(idx, to_remove) == idx \notin to_remove

RECURSIVE Retained(_, _, _)
Retained(src, idx, to_remove) ==
    IF idx >= Len(src.pages) THEN <<>>
    ELSE (IF KeptFrom(idx, to_remove) THEN << src.pages[idx + 1] >> ELSE <<>>)
         \o Retained(src, idx + 1, to_remove)

RemoveWith(src, to_remove) ==
    IF ~to_remove.ok THEN RaisedPdfOpError
    ELSE Tobytes(Retained(src, 0, to_remove.val))

remove_pages(src, pages) ==
    IF ~src.valid THEN RaisedException
    ELSE RemoveWith(src, parse_page_ranges(pages, Len(src.pages)))

\* merge_pdfs: insert_pdf of every input, in list order.
RECURSIVE MergeLoop(_, _)
MergeAppendFront(out, src) == src.pages \o out

MergeAppend(out, src) == out \o src.pages

MergeLoop(pdf_bytes_list, out) ==
    IF pdf_bytes_list = <<>> THEN Tobytes(out)
    ELSE IF ~Head(pdf_bytes_list).valid THEN RaisedException
    ELSE MergeLoop(Tail(pdf_bytes_list), MergeAppend(out, Head(pdf_bytes_list)))

merge_pdfs(pdf_bytes_list) ==
    IF pdf_bytes_list = <<>> THEN RaisedPdfOpError
    ELSE MergeLoop(pdf_bytes_list, <<>>)

\* The three calls, each a single step from its inputs to its result.
ReorderPages ==
    /\ call.op = "reorder"
    /\ ret.kind = "pending"
    /\ ret' = reorder_pages(call.docs[1], call.arg)
    /\ UNCHANGED << call, passVars >>

RemovePages ==
    /\ call.op = "remove"
    /\ ret.kind = "pending"
    /\ ret' = remove_pages(call.docs[1], call.arg)
    /\ UNCHANGED << call, passVars >>

MergePdfs ==
    /\ call.op = "merge"
    /\ ret.kind = "pending"
    /\ ret' = merge_pdfs(call.docs)
    /\ UNCHANGED << call, passVars >>

NextPages == ReorderPages \/ RemovePages \/ MergePdfs

\* Inputs: documents of up to MaxDocPages pages, lists of up to MaxDocs
\* documents, and page lists of up to MaxParts comma-separated items; the
\* page list is the text that joins the items with commas.
MaxDocPages == 3
MaxParts == 3
MaxDocs == 2

InputDoc(k, n) == [valid |-> TRUE, pages |-> [i \in 1..n |-> [doc |-> k, no |-> i]]]
NotAPdf == [valid |-> FALSE, pages |-> <<>>]

ItemSamples ==
    { << "1" >>, << "2" >>, << "3" >>, << " ", "2", " " >>, << "1", "-", "2" >>,
      << "2", " ", "-", " ", "3" >>, << "2", "-", "1" >>, << "-", "1" >>,
      << "x" >>, << "1", " ", "2" >>, << "0" >>, <<>> }

RECURSIVE JoinItems(_)
JoinItems(items) ==
    IF items = <<>> THEN <<>>
    ELSE IF Len(items) = 1 THEN items[1]
    ELSE items[1] \o << "," >> \o JoinItems(Tail(items))

ItemLists == UNION { [1..n -> ItemSamples] : n \in 0..MaxParts }

InitPages ==
    /\ \/ \E op \in {"reorder", "remove"}, n \in 1..MaxDocPages, items \in ItemLists :
            call = [op |-> op, docs |-> << InputDoc(1, n) >>, items |-> items,
                      arg |-> JoinItems(items)]
       \/ \E op \in {"reorder", "remove"} :
            call = [op |-> op, docs |-> << NotAPdf >>, items |-> << << "1" >> >>,
                      arg |-> << "1" >>]
       \/ \E k \in 0..MaxDocs :
          \E sizes \in [1..k -> 0..MaxDocPages] :
            call = [op |-> "merge",
                      docs |-> [i \in 1..k |-> IF sizes[i] = 0 THEN NotAPdf
                                               ELSE InputDoc(i, sizes[i])],
                      items |-> <<>>, arg |-> <<>>]
    /\ ret = NoRet
    /\ host = CHOOSE h \in PassHosts : h.os = "posix"
    /\ req = [p \in Passes |-> IdleReq]
    /\ pc = [p \in Passes |-> "idle"]
    /\ InitState

SpecPages == InitPages /\ [][NextPages]_vars


(***************************************************************************)
(* Properties of the page-collection operations.  The entries of a page    *)
(* list are its non-blank items; what an item names is read off a table,   *)
(* independently of the parsers.                                           *)
(***************************************************************************)
PageCallDone == ret.kind # "pending"
Entries == SelectSeq(call.items, NonEmpty)
SourcePages == Len(call.docs[1].pages)

\* The page number an entry of an order names; 0 when it is not a positive
\* integer.
EntryPage(item) ==
    CASE item = << "1" >> -> 1
      [] item = << "2" >> -> 2
      [] item = << " ", "2", " " >> -> 2
      [] item = << "3" >> -> 3
      [] OTHER -> 0

ValidOrder ==
    /\ Len(Entries) = SourcePages
    /\ \A i \in 1..Len(Entries) : EntryPage(Entries[i]) \in 1..SourcePages
    /\ \A i, j \in 1..Len(Entries) :
           i # j => EntryPage(Entries[i]) # EntryPage(Entries[j])

\* C13: reorder_pages of an order with exactly page_count distinct entries in
\* 1..page_count returns the document whose i-th page is the input page
\* named by the i-th entry; an order with a duplicate, an out-of-range or
\* non-integer entry, or another length fails with PdfOpError and no output.
C13_ReorderPages ==
    (call.op = "reorder" /\ call.docs[1].valid /\ PageCallDone) =>
        IF ValidOrder
        THEN ret = Returned([i \in 1..SourcePages |->
                                   [doc |-> 1, no |-> EntryPage(Entries[i])]])
        ELSE ret = RaisedPdfOpError

C13_Witness ==
    /\ call.op = "reorder"
    /\ ret.kind = "returned"
    /\ Len(ret.pages) = 3
    /\ ret.pages[1].no = 3
    /\ ret.pages[2].no = 1


\* The pages an entry of a page list names: one page, or an inclusive
\* range; {0} when it is not a page or a range with end >= start.
PagesNamed(item) ==
    CASE item = << "1" >> -> {1}
      [] item = << "2" >> -> {2}
      [] item = << " ", "2", " " >> -> {2}
      [] item = << "3" >> -> {3}
      [] item = << "1", "-", "2" >> -> {1, 2}
      [] item = << "2", " ", "-", " ", "3" >> -> {2, 3}
      [] OTHER -> {0}

Excluded == UNION { PagesNamed(Entries[i]) : i \in 1..Len(Entries) }

\* C14: remove_pages of a page list that names only pages in 1..page_count
\* (single pages and inclusive ranges, duplicates allowed) returns a
\* document of page_count minus the number of distinct excluded pages, the
\* retained pages in their original order; a list with a page outside the
\* range, a range whose end is below its start, or a non-integer item fails
\* with PdfOpError.
C14_RemovePages ==
    (call.op = "remove" /\ call.docs[1].valid /\ PageCallDone /\ Entries # <<>>) =>
        IF Excluded \subseteq 1..SourcePages
        THEN /\ ret.kind = "returned"
             /\ Len(ret.pages) = SourcePages - Cardinality(Excluded)
             /\ \A i \in 1..Len(ret.pages) :
                    /\ ret.pages[i].no \in (1..SourcePages) \ Excluded
                    /\ i > 1 => ret.pages[i - 1].no < ret.pages[i].no
        ELSE ret = RaisedPdfOpError


AllInputsOpen == \A i \in 1..Len(call.docs) : call.docs[i].valid

RECURSIVE TotalPages(_)
TotalPages(docs) == IF docs = <<>> THEN 0 ELSE Len(Head(docs).pages) + TotalPages(Tail(docs))

InputPages == UNION { Range(call.docs[i].pages) : i \in 1..Len(call.docs) }

\* C15: merge_pdfs of a non-empty list of documents returns one document
\* whose page count is the sum of the inputs' page counts and whose pages are
\* the pages of each input in their order, the inputs taken in list order;
\* an empty list fails with PdfOpError.
C15_MergePdfs ==
    (call.op = "merge" /\ PageCallDone) =>
        /\ call.docs = <<>> => ret = RaisedPdfOpError
        /\ (call.docs # <<>> /\ AllInputsOpen) =>
               /\ ret.kind = "returned"
               /\ Len(ret.pages) = TotalPages(call.docs)
               /\ Range(ret.pages) = InputPages
               /\ \A i \in 2..Len(ret.pages) :
                      \/ ret.pages[i - 1].doc < ret.pages[i].doc
                      \/ /\ ret.pages[i - 1].doc = ret.pages[i].doc
                         /\ ret.pages[i - 1].no < ret.pages[i].no

C15_Witness ==
    /\ call.op = "merge"
    /\ Len(call.docs) = 2
    /\ ret.kind = "returned"
    /\ Len(ret.pages) = 4
    /\ ret.pages[2] = [doc |-> 1, no |-> 2]
    /\ ret.pages[3] = [doc |-> 2, no |-> 1]


(***************************************************************************)
(* Case matching of the replacement text, called on its own with originals *)
(* of up to MaxTextLen characters: letters of both cases, a blank, a digit.*)
(***************************************************************************)
MatchReplacementCase ==
    /\ call.op = "match_case"
    /\ ret.kind = "pending"
    /\ ret' = [kind |-> "returned", error |-> "none",
               value |-> _match_replacement_case(call.original, call.replacement)]
    /\ UNCHANGED << call, passVars >>

NextCase == MatchReplacementCase

MaxTextLen == 4

CaseChars == {"a", "A", "b", "B", " ", "1"}

Originals == UNION { [1..n -> CaseChars] : n \in 0..MaxTextLen }

ReplacementSamples ==
    { <<>>, << "a", "B" >>, << "a", " ", "b" >>, << "A", "b" >>, << "1", "a" >> }

InitCase ==
    /\ \E o \in Originals, r \in ReplacementSamples :
           call = [op |-> "match_case", original |-> o, replacement |-> r]
    /\ ret = NoRet
    /\ host = CHOOSE h \in PassHosts : h.os = "posix"
    /\ req = [p \in Passes |-> IdleReq]
    /\ pc = [p \in Passes |-> "idle"]
    /\ InitState

SpecCase == InitCase /\ [][NextCase]_vars

\* The casing of a text, letter by letter: a letter starts its word when no
\* letter stands between it and the preceding blank (or the start).
LetterAt(s, i) == IsAlpha(s[i])
SameWord(s, j, i) == \A k \in j..i : ~IsSpace(s[k])
StartsWord(s, i) == \A j \in 1..(i - 1) : SameWord(s, j, i) => ~LetterAt(s, j)
HasLetters(s) == \E i \in 1..Len(s) : LetterAt(s, i)
AllUpper(s) == \A i \in 1..Len(s) : LetterAt(s, i) => IsUpperCh(s[i])
AllLower(s) == \A i \in 1..Len(s) : LetterAt(s, i) => IsLowerCh(s[i])
AllTitle(s) ==
    \A i \in 1..Len(s) :
        LetterAt(s, i) => IF StartsWord(s, i) THEN IsUpperCh(s[i]) ELSE IsLowerCh(s[i])

ExpectedCase(original, replacement) ==
    IF replacement = <<>> \/ ~HasLetters(original) THEN replacement
    ELSE IF AllUpper(original) THEN UpperStr(replacement)
    ELSE IF AllLower(original) THEN LowerStr(replacement)
    ELSE IF AllTitle(original) THEN TitleStr(replacement)
    ELSE replacement

\* C16: the replacement is cased after the letters of the original, the
\* rules tried in order: all letters upper gives the uppercased replacement,
\* all letters lower the lowercased one, every word title-cased the
\* title-cased one; otherwise, and when the original has no letters or the
\* replacement is empty, the replacement comes back unchanged.
C16_CaseRules ==
    (call.op = "match_case" /\ ret.kind = "returned") =>
        ret.value = ExpectedCase(call.original, call.replacement)

C16_Witness ==
    /\ call.op = "match_case"
    /\ ret.kind = "returned"
    /\ call.original = << "A", "b", " ", "B" >>
    /\ call.replacement = << "a", " ", "b" >>
    /\ ret.value = << "A", " ", "B" >>


(***************************************************************************)
(* Match regions: _merge_close_rects and _expand_rect_to_word.  A          *)
(* coordinate is an integer number of 1/200 point, so that the factors     *)
(* 0.3, 0.8, 0.15, 0.08, 0.10 and 0.06 of the code are exact on            *)
(* rectangles drawn on a half-point grid.                                  *)
(***************************************************************************)
Pt(n) == 200 * n
HalfPt(n) == 100 * n

Max2(a, b) == IF a >= b THEN a ELSE b
Min2(a, b) == IF a <= b THEN a ELSE b
Abs(a) == IF a >= 0 THEN a ELSE 0 - a

Rect(x0, y0, x1, y1) == [x0 |-> x0, y0 |-> y0, x1 |-> x1, y1 |-> y1]
Height(r) == r.y1 - r.y0

\* fitz.Rect: is_empty, bool(), intersects, and the & of two rectangles.
IsEmptyRect(r) == r.x0 >= r.x1 \/ r.y0 >= r.y1
RectTruth(r) == r # Rect(0, 0, 0, 0)

Intersection(a, b) ==
    Rect(Max2(a.x0, b.x0), Max2(a.y0, b.y0), Min2(a.x1, b.x1), Min2(a.y1, b.y1))

Intersects(a, b) ==
    /\ ~IsEmptyRect(a)
    /\ ~IsEmptyRect(b)
    /\ ~IsEmptyRect(Intersection(a, b))

Area(r) == IF IsEmptyRect(r) THEN 0 ELSE (r.x1 - r.x0) * (r.y1 - r.y0)

Union(a, b) ==
    Rect(Min2(a.x0, b.x0), Min2(a.y0, b.y0), Max2(a.x1, b.x1), Max2(a.y1, b.y1))

\* cleaned.sort(key=(y0, x0)): a stable sort.
KeyLeq(a, b) == a.y0 < b.y0 \/ (a.y0 = b.y0 /\ a.x0 <= b.x0)

RECURSIVE InsertSorted(_, _)
InsertSorted(sorted, r) ==
    IF sorted = <<>> THEN << r >>
    ELSE IF KeyLeq(Head(sorted), r) THEN << Head(sorted) >> \o InsertSorted(Tail(sorted), r)
    ELSE << r >> \o sorted

RECURSIVE SortRects(_, _)
SortRects(rects, sorted) ==
    IF rects = <<>> THEN sorted
    ELSE SortRects(Tail(rects), InsertSorted(sorted, Head(rects)))

Cleaned(rects) == SortRects(SelectSeq(rects, RectTruth), <<>>)

\* Lines 1231-1240: r lies on the line of the last merged rectangle.
VOverlap(last, r) == Max2(0, Min2(last.y1, r.y1) - Max2(last.y0, r.y0))
MinH(last, r) == Max2(Pt(1), Min2(Height(last), Height(r)))

SameLine(last, r) ==
    \/ 10 * VOverlap(last, r) >= 3 * MinH(last, r)
    \/ 5 * Abs((last.y0 + last.y1) - (r.y0 + r.y1)) < 8 * MinH(last, r)

\* A merged rectangle is kept with the raw rectangles it was grown from.
Region(rect, members) == [rect |-> rect, members |-> members]

MergeInto(last, r) == Region(Union(last.rect, r), last.members \cup {r})

RECURSIVE MergeRects(_, _)
MergeRects(cleaned, merged) ==
    IF cleaned = <<>> THEN merged
    ELSE IF merged = <<>> THEN MergeRects(Tail(cleaned), << Region(Head(cleaned), {Head(cleaned)}) >>)
    ELSE IF Intersects(merged[Len(merged)].rect, Head(cleaned))
            \/ SameLine(merged[Len(merged)].rect, Head(cleaned))
         THEN MergeRects(Tail(cleaned),
                         [merged EXCEPT ![Len(merged)] = MergeInto(@, Head(cleaned))])
    ELSE MergeRects(Tail(cleaned), Append(merged, Region(Head(cleaned), {Head(cleaned)})))

\* Lines 1253-1266: pad_x = max(2.0, h * 0.15), pad_y = max(1.0, h * 0.08).
PadBy(r, pad_x, pad_y) == Rect(r.x0 - pad_x, r.y0 - pad_y, r.x1 + pad_x, r.y1 + pad_y)

Padded(r) ==
    PadBy(r, Max2(Pt(2), (Height(r) * 15) \div 100), Max2(Pt(1), (Height(r) * 8) \div 100))

PadAll(merged) == [i \in 1..Len(merged) |-> Region(Padded(merged[i].rect), merged[i].members)]

_merge_close_rects(rects) ==
    IF rects = <<>> THEN <<>> ELSE PadAll(MergeRects(Cleaned(rects), <<>>))

\* _expand_rect_to_word: the word that contains the search string and
\* shares the largest area with the region, padded; the region itself when
\* there is none or the search string has whitespace in it.
Unexpanded(rect, replace_text) == [rect |-> rect, original |-> <<>>, insert |-> replace_text]

RECURSIVE BestWord(_, _, _, _, _)
\* The first word that contains the search string and meets the region.
BestWordFirst(words, rect, ft_l, best_area, best_word) ==
    IF words = <<>> THEN [area |-> best_area, word |-> best_word]
    ELSE IF /\ Head(words).text # <<>>
            /\ IsSubSeq(ft_l, LowerStr(Head(words).text))
            /\ Intersects(Head(words).rect, rect)
            /\ Area(Intersection(Head(words).rect, rect)) > 0
         THEN [area |-> Area(Intersection(Head(words).rect, rect)), word |-> << Head(words) >>]
    ELSE BestWord(Tail(words), rect, ft_l, best_area, best_word)
\* Lines 543-561: the scan of the page's words.
BestWord(words, rect, ft_l, best_area, best_word) ==
    IF words = <<>> THEN [area |-> best_area, word |-> best_word]
    ELSE IF /\ Head(words).text # <<>>
            /\ IsSubSeq(ft_l, LowerStr(Head(words).text))
            /\ Intersects(Head(words).rect, rect)
            /\ Area(Intersection(Head(words).rect, rect)) > best_area
         THEN BestWord(Tail(words), rect, ft_l,
                       Area(Intersection(Head(words).rect, rect)), << Head(words) >>)
    ELSE BestWord(Tail(words), rect, ft_l, best_area, best_word)

WordPadded(wrect, h) ==
    PadBy(wrect, Max2(HalfPt(3), (h * 10) \div 100), Max2(Pt(1), (h * 6) \div 100))

ExpandedTo(best, rect, ft, replace_text) ==
    IF best.word = <<>> \/ best.area <= 0 THEN Unexpanded(rect, replace_text)
    ELSE [rect |-> WordPadded(best.word[1].rect, Max2(Pt(1), Height(best.word[1].rect))),
          original |-> best.word[1].text,
          insert |-> _replace_case_insensitive(best.word[1].text, ft, replace_text)]

ExpandWith(words, rect, ft, replace_text) ==
    IF ft = <<>> \/ \E i \in 1..Len(ft) : IsSpace(ft[i]) THEN Unexpanded(rect, replace_text)
    ELSE ExpandedTo(BestWord(words, rect, LowerStr(ft), 0, <<>>), rect, ft, replace_text)

_expand_rect_to_word(words, rect, find_text, replace_text) ==
    ExpandWith(words, rect, Strip(find_text), replace_text)

\* Lines 1732-1760 for one page: the raw rectangles of search_for are
\* merged, then every region is expanded to its word.
MergeCloseRects ==
    /\ call.op = "regions"
    /\ ret.kind = "pending"
    /\ ret' = [kind |-> "merged", error |-> "none",
               rects |-> _merge_close_rects(call.raw_rects), targets |-> <<>>,
               textbox |-> [raises |-> FALSE, text |-> <<>>]]
    /\ UNCHANGED << call, passVars >>

\* Lines 1769-1776: a region that was not expanded to a word gets its
\* original text from page.get_textbox, stripped; the search string when the
\* read raises.
ReadBack(target, textbox, find_text) ==
    IF target.original # <<>> THEN target
    ELSE IF textbox.raises THEN [target EXCEPT !.original = find_text]
    ELSE [target EXCEPT !.original = Strip(textbox.text)]

\* What page.get_textbox gives for a region: text with blanks around it,
\* nothing, or an exception.
TextboxReads ==
    { [raises |-> FALSE, text |-> << " ", "a", "b" >>],
      [raises |-> FALSE, text |-> <<>>],
      [raises |-> TRUE, text |-> <<>>] }

ExpandRects ==
    /\ call.op = "regions"
    /\ ret.kind = "merged"
    /\ \E textbox \in TextboxReads :
         ret' = [ret EXCEPT
                 !.kind = "returned",
                 !.textbox = textbox,
                 !.targets = [i \in 1..Len(ret.rects) |->
                     ReadBack(_expand_rect_to_word(call.words, ret.rects[i].rect,
                                                   call.find_text, call.replace_text),
                              textbox, call.find_text)]]
    /\ UNCHANGED << call, passVars >>

NextRects == MergeCloseRects \/ ExpandRects

\* Inputs: up to MaxRects raw rectangles of a page of 600 x 800 points.  In
\* points: two hits on one line far apart, a hit on the next line, a tall hit
\* across both lines, two hits half a point high, a hit one point from the
\* left edge, and a tall hit followed by a short one that starts just below.
MaxRects == 3

PageRect == Rect(0, 0, Pt(600), Pt(800))

RawRectSamples ==
    { Rect(Pt(10), Pt(100), Pt(40), Pt(110)),
      Rect(Pt(300), Pt(101), Pt(340), Pt(111)),
      Rect(Pt(10), Pt(120), Pt(40), Pt(130)),
      Rect(Pt(30), Pt(105), Pt(50), Pt(125)),
      Rect(Pt(10), Pt(100), Pt(40), HalfPt(201)),
      Rect(Pt(300), HalfPt(201), Pt(340), Pt(101)),
      Rect(Pt(1), Pt(100), Pt(30), Pt(110)),
      Rect(Pt(300), Pt(108), Pt(340), Pt(140)),
      Rect(Pt(50), HalfPt(217), Pt(60), Pt(112)) }

Word(rect, text) == [rect |-> rect, text |-> text]

WordLists ==
    { <<>>,
      << Word(Rect(Pt(8), Pt(99), Pt(45), Pt(111)), << "a", "b" >>) >>,
      << Word(Rect(HalfPt(1), Pt(99), Pt(32), Pt(111)), << "A", "b" >>),
         Word(Rect(Pt(8), Pt(99), Pt(45), Pt(111)), << "a", "b" >>) >>,
      << Word(Rect(Pt(8), Pt(99), Pt(45), Pt(111)), << "b" >>) >> }

RawRectLists == UNION { [1..n -> RawRectSamples] : n \in 0..MaxRects }

InitRects ==
    /\ \E rects \in RawRectLists, words \in WordLists,
          ft \in { << "a" >>, << " ", "a" >>, << "a", " ", "b" >> } :
           call = [op |-> "regions", raw_rects |-> rects, words |-> words,
                   find_text |-> ft, replace_text |-> << "a", "b" >>]
    /\ ret = NoRet
    /\ host = CHOOSE h \in PassHosts : h.os = "posix"
    /\ req = [p \in Passes |-> IdleReq]
    /\ pc = [p \in Passes |-> "idle"]
    /\ InitState

SpecRects == InitRects /\ [][NextRects]_vars

RegionsMerged == call.op = "regions" /\ ret.kind \in {"merged", "returned"}

InOneRegion(a, b) == \E i \in 1..Len(ret.rects) : {a, b} \subseteq ret.rects[i].members

SmallerHeight(a, b) == Min2(Height(a), Height(b))
CentreGapTimes10(a, b) == 5 * Abs((a.y0 + a.y1) - (b.y0 + b.y1))

\* C17: two raw rectangles are in one region whenever they intersect, or
\* their vertical overlap is at least 0.3 of the smaller height, or their
\* vertical centres differ by less than 0.8 of the smaller height, whatever
\* the horizontal gap; two raw rectangles with no vertical overlap and
\* centres more than 0.8 of the smaller height apart are in separate regions.
C17_MergeRule ==
    RegionsMerged =>
        \A i, j \in 1..Len(call.raw_rects) :
            /\ ( \/ Intersects(call.raw_rects[i], call.raw_rects[j])
                 \/ 10 * VOverlap(call.raw_rects[i], call.raw_rects[j])
                        >= 3 * SmallerHeight(call.raw_rects[i], call.raw_rects[j])
                 \/ CentreGapTimes10(call.raw_rects[i], call.raw_rects[j])
                        < 8 * SmallerHeight(call.raw_rects[i], call.raw_rects[j]) )
               => InOneRegion(call.raw_rects[i], call.raw_rects[j])
            /\ ( /\ VOverlap(call.raw_rects[i], call.raw_rects[j]) = 0
                 /\ CentreGapTimes10(call.raw_rects[i], call.raw_rects[j])
                        > 8 * SmallerHeight(call.raw_rects[i], call.raw_rects[j]) )
               => ~InOneRegion(call.raw_rects[i], call.raw_rects[j])

Within(r, page) == r.x0 >= page.x0 /\ r.y0 >= page.y0 /\ r.x1 <= page.x1 /\ r.y1 <= page.y1

\* C18: every match region's rectangle, after merging, padding and
\* whole-word expansion, lies within the bounds of its page.
C18_RegionsWithinPage ==
    (call.op = "regions" /\ ret.kind = "returned") =>
        \A i \in 1..Len(ret.targets) : Within(ret.targets[i].rect, PageRect)


(***************************************************************************)
(* The diagnostics map of a pass.                                          *)
(***************************************************************************)
\* The body that ran last is the one that wrote the map of pass p.
WroteDebug(p) ==
    /\ HasMatch
    /\ lastMatch.pass = p
    /\ debug[p].set
    /\ debug[p].page = lastMatch.page
    /\ debug[p].index = lastMatch.index

\* C19: the diagnostics map is written by the first match processed (the
\* first region of the first target page that has one) and by no other; its
\* detected fields are that match's style and usedSource/usedFont name the
\* tier whose insertion rendered the match, not one whose attempt failed; a
\* pass with no match returns an empty map.
C19_DebugDescribesRenderedTier ==
    \A p \in Passes :
        /\ (HasMatch /\ lastMatch.pass = p) => debug[p].set
        /\ debug[p].set =>
               /\ debug[p].index = 1
               /\ \A q \in docState[p].redacted : q >= debug[p].page
        /\ WroteDebug(p) =>
               /\ debug[p].detectedFont = lastMatch.locals.fontname
               /\ debug[p].detectedBold = lastMatch.locals.is_bold
               /\ debug[p].detectedItalic = lastMatch.locals.is_italic
               /\ lastMatch.inserted =>
                      /\ debug[p].usedSource = SourceLabel(LastAttempt)
                      /\ debug[p].usedFont = LastAttempt
        /\ (outcome[p].kind = "returned" /\ outcome[p].count = 0) => ~debug[p].set


(***************************************************************************)
(* The custom-directory tier.                                              *)
(***************************************************************************)
DirRank(src) == IF src = "uploaded" THEN 1 ELSE IF src = "custom" THEN 2 ELSE 3

DirsOfMatch == _custom_fonts_dirs_with_source(lastMatch.pass)

NormOfMatch == _normalize_fontname(lastMatch.locals.fontname)

FamilyKeyOfMatch ==
    IF _family_key_from_norm(NormOfMatch) # NoKey
    THEN _family_key_from_norm(NormOfMatch) ELSE NormOfMatch

\* The custom-directory tier looks into the directories for this match.
CustomTierScans ==
    /\ NormOfMatch # <<>>
    /\ _family_key_from_norm(NormOfMatch) # NoKey \/ Contains(NormOfMatch, "f")

Qualifies(file) ==
    _score_font_filename(file.name, FamilyKeyOfMatch,
                         lastMatch.locals.is_bold, lastMatch.locals.is_italic) > 0

\* C20: the custom-directory tier takes the directories in the order
\* uploaded, configured, bundled, and when a directory holds a qualifying
\* font file the file selected comes from that directory or one of higher
\* priority, whatever the lower-priority directories hold.
C20_DirectoryPriority ==
    HasMatch =>
        /\ \A i, j \in 1..Len(DirsOfMatch) :
               i < j => DirRank(DirsOfMatch[i].src) <= DirRank(DirsOfMatch[j].src)
        /\ CustomTierScans =>
               \A i \in 1..Len(DirsOfMatch) :
                   (/\ CanList(DirsOfMatch[i])
                    /\ \E k \in 1..Len(DirListing(DirsOfMatch[i])) :
                           Qualifies(DirListing(DirsOfMatch[i])[k]))
                   => /\ CustomFileOfMatch # NoFile
                      /\ DirRank(CustomFileOfMatch.src) <= DirRank(DirsOfMatch[i].src)

(***************************************************************************)
(* Page scope of a pass.                                                   *)
(***************************************************************************)
\* The 1-based pages a request that passes validation names.
ScopePages(r) ==
    IF r.scope = "range" THEN r.from_page[1]..r.to_page[1]
    ELSE 1..r.doc.page_count

\* The 0-based pages the loop of pass p has reached so far.
PagesReached(p) ==
    { page_indices[p][k] : k \in { j \in 1..Len(page_indices[p]) : j <= loopIdx[p] } }

\* C21: a pass whose arguments are accepted visits, in ascending order,
\* exactly the pages from_page..to_page (1-based, inclusive) under scope
\* 'range' and every page of the document under scope 'all', whatever
\* from_page and to_page are; only pages already visited, hence only pages
\* of the scope, are redacted or written; and a pass that returns has
\* visited them all.
C21_PageScope ==
    \A p \in Passes :
        (pc[p] # "start" /\ ValidationError(req[p]) = "none") =>
            /\ Len(page_indices[p]) = Cardinality(ScopePages(req[p]))
            /\ \A k \in 1..Len(page_indices[p]) :
                    /\ page_indices[p][k] + 1 \in ScopePages(req[p])
                    /\ k > 1 => page_indices[p][k - 1] < page_indices[p][k]
            /\ docState[p].redacted \cup docState[p].inserted \subseteq PagesReached(p)
            /\ outcome[p].kind = "returned" => loopIdx[p] = Len(page_indices[p]) + 1

\* A returned pass over pages 2..2 of a two-page document that redacted and
\* wrote page 2 and nothing else.
C21_Witness ==
    /\ req["p1"].scope = "range"
    /\ req["p1"].from_page = <<2>> /\ req["p1"].to_page = <<2>>
    /\ req["p1"].doc.page_count = 2
    /\ outcome["p1"].kind = "returned"
    /\ docState["p1"].redacted = {1} /\ docState["p1"].inserted = {1}

\* A returned pass with scope 'all' and a page range that would be rejected
\* under scope 'range', every page redacted.
C21_WitnessAll ==
    /\ req["p1"].scope = "all"
    /\ req["p1"].from_page = <<2>> /\ req["p1"].to_page = <<1>>
    /\ outcome["p1"].kind = "returned"
    /\ docState["p1"].redacted = 0..(req["p1"].doc.page_count - 1)

(***************************************************************************)
(* Width fitting of a single string (_insert_text_fit).  Sizes and widths  *)
(* are whole numbers of 1/200 point; the advance of a text is given in     *)
(* tenths of its font size.  A float product or quotient is rounded to the *)
(* grid, down or up: the direction is an input of every operation.         *)
(***************************************************************************)
Rounded(num, den, up) == (num \div den) + (IF up /\ num % den # 0 THEN 1 ELSE 0)

\* _measure_text_width: the advance of the text at a size (linear in it).
_measure_text_width(advance, size, up) == Rounded(size * advance, 10, up)

\* Line 1556.
min_size == Pt(4)
\* Line 1563: for _ in range(4).
FitSteps == 4

\* Lines 1557 (and 1459, 1508): max(1.0, rect.width - 1.0).
MaxWidth(rect_width) == Max2(Pt(1), rect_width - Pt(1))

RECURSIVE FitLoop(_, _, _, _, _)
\* Lines 1567-1571 once the width at `size` is known to be w.
FitStep(advance, max_width, size, i, rnd, w, next_size) ==
    IF w <= max_width THEN size
    ELSE IF next_size < min_size THEN min_size
    ELSE FitLoop(advance, max_width, next_size, i + 1, rnd)

\* Lines 1563-1571: iteration i of the loop; rnd[2i+1], rnd[2i+2] round
\* its measurement and its product.
FitLoop(advance, max_width, size, i, rnd) ==
    IF i > FitSteps THEN size
    ELSE FitStep(advance, max_width, size, i, rnd,
                 _measure_text_width(advance, size, rnd[2 * i + 1]),
                 Rounded(size * 97, 100, rnd[2 * i + 2]))

\* Line 1562: size = max(min_size, size * (max_width / w0)).
Scaled(fontsize, max_width, w0, up) ==
    Max2(min_size, Rounded(fontsize * max_width, w0, up))

\* Lines 1560-1571 with w0 measured.
FitFrom(advance, max_width, fontsize, rnd, w0) ==
    IF w0 > max_width /\ w0 > 0
    THEN FitLoop(advance, max_width, Scaled(fontsize, max_width, w0, rnd[2]), 1, rnd)
    ELSE fontsize

\* _insert_text_fit: the size handed to page.insert_text (line 1579).
_insert_text_fit(rect_width, advance, fontsize, rnd) ==
    FitFrom(advance, MaxWidth(rect_width), fontsize, rnd,
            _measure_text_width(advance, fontsize, rnd[1]))

InsertTextFit ==
    /\ call.op = "fit"
    /\ ret.kind = "pending"
    /\ \E rnd \in [1..(2 * FitSteps + 2) -> BOOLEAN] :
         ret' = [kind |-> "inserted", error |-> "none",
                 w0 |-> _measure_text_width(call.advance, call.fontsize, rnd[1]),
                 size |-> _insert_text_fit(call.rect_width, call.advance,
                                           call.fontsize, rnd)]
    /\ UNCHANGED << call, passVars >>

NextFit == InsertTextFit

\* Inputs.  A region is at least 3 points wide (both paddings add 1.5 points
\* or more on each side); a span reports any positive size, the estimate is
\* between 6 and 48 points; texts from half an em to some 15 em.
FitRectWidths == { Pt(3), Pt(5) + 1, Pt(12), Pt(40) + 77, Pt(150) }
FitFontSizes == { Pt(3), HalfPt(9), Pt(6), Pt(12) + 1, Pt(24) + 33, Pt(48) }
FitAdvances == { 5, 13, 27, 61, 154 }

InitFit ==
    /\ \E w \in FitRectWidths, f \in FitFontSizes, a \in FitAdvances :
           call = [op |-> "fit", rect_width |-> w, fontsize |-> f, advance |-> a]
    /\ ret = NoRet
    /\ host = CHOOSE h \in PassHosts : h.os = "posix"
    /\ req = [p \in Passes |-> IdleReq]
    /\ pc = [p \in Passes |-> "idle"]
    /\ InitState

SpecFit == InitFit /\ [][NextFit]_vars

FitDone == call.op = "fit" /\ ret.kind = "inserted"

\* The width of the text at this size, as far as a measurement can tell (to
\* the grid below), is no more than rect.width - 1.
FitsAt(size) == (size * call.advance) \div 10 <= call.rect_width - Pt(1)

\* C22: when the width measured at the target size exceeds rect.width - 1,
\* the size is scaled down and then reduced, never below the floor of 4
\* points; and the text is inserted at a size at which it is no wider than
\* rect.width - 1 unless that size is the floor.
C22_FitToWidth ==
    FitDone =>
        /\ ret.w0 > call.rect_width - Pt(1) =>
                /\ ret.size <= call.fontsize
                /\ ret.size >= min_size
        /\ FitsAt(ret.size) \/ ret.size = min_size

\* C29: fitting only shrinks: the inserted size is at most the target size.
C29_FitOnlyShrinks == FitDone => ret.size <= call.fontsize

(***************************************************************************)
(* The choice between distributed and fitted insertion.                    *)
(***************************************************************************)
ContainsSpace(text) == \E i \in 1..Len(text) : IsSpace(text[i])

\* Lines 1513-1533 with orig and repl stripped.
SimilarTexts(orig, repl, rect_w, measured_original) ==
    /\ orig # <<>>
    /\ ContainsSpace(orig) = ContainsSpace(repl)
    /\ measured_original > 0
    /\ 10 * rect_w >= 11 * measured_original
    /\ 100 * Len(repl) >= 65 * Max2(1, Len(orig))
    /\ 100 * Len(repl) <= 135 * Max2(1, Len(orig))

\* _should_use_distributed_insertion.
_should_use_distributed_insertion(rect_width, original_text, replacement_text, measured_replacement, measured_original, fontsize) ==
    /\ fontsize >= Pt(12)
    /\ Len(replacement_text) > 2
    /\ measured_replacement > 0
    /\ 5 * MaxWidth(rect_width) >= 6 * measured_replacement
    /\ SimilarTexts(Strip(original_text), Strip(replacement_text),
                    MaxWidth(rect_width), measured_original)

\* _insert_text_distributed: a text of one character is fitted (line 1438).
DistributedMode(text) == IF Len(text) <= 1 THEN "fit" ELSE "distributed"

\* The insertion call of each block of the loop body: lines 1887-1915 and
\* 1955-1983 ask _should_use_distributed_insertion; lines 2003, 2030, 2058
\* and 2086 call _insert_text_fit.
InsertionMode(c) ==
    IF c.tier \in {"embedded", "windows"}
       /\ _should_use_distributed_insertion(c.rect_width, c.original, c.insert_text,
              c.measured, c.measured_orig, c.target_size)
    THEN DistributedMode(c.insert_text)
    ELSE "fit"

ChooseInsertion ==
    /\ call.op = "insert"
    /\ ret.kind = "pending"
    /\ ret' = [kind |-> "inserted", error |-> "none", mode |-> InsertionMode(call)]
    /\ UNCHANGED << call, passVars >>

NextMode == ChooseInsertion

\* Inputs: the six blocks; a region 61 points wide (MaxWidth 60) and one of
\* 20; widths on both sides of the 1.20 and 1.10 thresholds.
Tiers == {"embedded", "windows", "embedded_last_resort", "windows_fallback", "system", "builtin"}

ModeOriginals ==
    { <<>>, << "a", "b", "a" >>, << "a", " ", "b" >>,
      << "a", "b", "a", "b", "a", "b" >> }

ModeInserts ==
    { << "a", "b" >>, << "a", "b", "a" >>, << "a", " ", "b" >>,
      << "a", "b", "a", " " >>, << "a", "b", "a", "b" >>, << "a", "b", "a", "b", "a" >> }

InitMode ==
    /\ \E t \in Tiers, w \in { Pt(20), Pt(61) }, f \in { Pt(11), Pt(12), Pt(14) },
          o \in ModeOriginals, i \in ModeInserts,
          m \in { Pt(10), Pt(50), Pt(55) }, mo \in { Pt(10), Pt(54), Pt(55) } :
           call = [op |-> "insert", tier |-> t, rect_width |-> w, target_size |-> f,
                   original |-> o, insert_text |-> i, measured |-> m,
                   measured_orig |-> IF o = <<>> THEN 0 ELSE mo]
    /\ ret = NoRet
    /\ host = CHOOSE h \in PassHosts : h.os = "posix"
    /\ req = [p \in Passes |-> IdleReq]
    /\ pc = [p \in Passes |-> "idle"]
    /\ InitState

SpecMode == InitMode /\ [][NextMode]_vars

ModeChosen == call.op = "insert" /\ ret.kind = "inserted"

\* The six conditions, on the texts without surrounding whitespace.
SixConditions ==
    /\ call.target_size >= Pt(12)
    /\ Len(call.insert_text) > 2
    /\ 100 * (call.rect_width - Pt(1)) >= 120 * call.measured
    /\ 100 * (call.rect_width - Pt(1)) >= 110 * call.measured_orig
    /\ (\E k \in 1..Len(Strip(call.original)) : Strip(call.original)[k] = " ")
         <=> (\E k \in 1..Len(Strip(call.insert_text)) : Strip(call.insert_text)[k] = " ")
    /\ 100 * Len(Strip(call.insert_text)) >= 65 * Len(Strip(call.original))
    /\ 100 * Len(Strip(call.insert_text)) <= 135 * Len(Strip(call.original))

\* C23: whichever block renders the text, it is inserted character by
\* character exactly when the six conditions hold (size at least 12,
\* replacement longer than 2, fill ratios of at least 1.20 and 1.10,
\* agreement on whitespace, length ratio within [0.65, 1.35]), and as one
\* fitted string otherwise.
C23_DistributedExactlyWhen ==
    ModeChosen => (ret.mode = "distributed" <=> SixConditions)

\* C23 holds of the first embedded block and the first Windows block.
C23_FirstBlocksOnly ==
    (ModeChosen /\ call.tier \in {"embedded", "windows"})
        => (ret.mode = "distributed" <=> SixConditions)

(***************************************************************************)
(* A match no font could render.                                           *)
(***************************************************************************)
\* The step of pass p is a loop body in which every insertion attempt,
\* the builtin candidates included, raised.
BodyFailed(p) ==
    /\ pc[p] = "insert"
    /\ lastMatch' # lastMatch
    /\ lastMatch'.pass = p
    /\ ~lastMatch'.inserted

\* C24: a loop body whose every insertion attempt raised tried every block
\* of its plan, leaves no exception in flight and no outcome, writes nothing
\* to the document, and hands control to the next region of the page or,
\* after the last region, to the next page.
C24_FailedMatchSkipped ==
    [][\A p \in Passes :
          BodyFailed(p) =>
              /\ lastMatch'.attempts = InsertionPlan(lastMatch'.locals)
              /\ exc'[p] = "none" /\ outcome'[p] = NoOutcome
              /\ docState'[p] = docState[p]
              /\ IF matchIdx[p] < Len(targets[p])
                 THEN pc'[p] = "insert" /\ matchIdx'[p] = matchIdx[p] + 1
                      /\ loopIdx'[p] = loopIdx[p]
                 ELSE pc'[p] = "page" /\ loopIdx'[p] = loopIdx[p] + 1]_vars

\* The first of two regions of a page was not inserted and the pass is
\* about to run the body of the second.
C24_Witness ==
    /\ HasMatch /\ lastMatch.pass = "p1" /\ ~lastMatch.inserted
    /\ lastMatch.index = 1 /\ matchIdx["p1"] = 2
    /\ pc["p1"] = "insert" /\ exc["p1"] = "none"

\* A pass returned bytes although no region of its last page was inserted.
C24_ReturnedAfterFailure ==
    /\ outcome["p1"].bytes
    /\ docState["p1"].redacted = {0, 1} /\ docState["p1"].inserted = {0}

(***************************************************************************)
(* The regions of a page: order, whole words, coverage.                    *)
(***************************************************************************)
RegionsDone == call.op = "regions" /\ ret.kind = "returned"

\* C25: the regions of a page after merging and whole-word expansion are
\* in non-decreasing order of (y0, x0), whatever the order of the raw hits.
C25_RegionsOrdered ==
    RegionsDone =>
        \A i \in 1..Len(ret.targets), j \in 1..Len(ret.targets) :
            i < j => KeyLeq(ret.targets[i].rect, ret.targets[j].rect)

\* The area two rectangles share (0 when they do not overlap).
SharedArea(a, b) ==
    Max2(0, Min2(a.x1, b.x1) - Max2(a.x0, b.x0))
        * Max2(0, Min2(a.y1, b.y1) - Max2(a.y0, b.y0))

ContainsIgnoringCase(text, ft) ==
    \E k \in 0..(Len(text) - Len(ft)) :
        \A j \in 1..Len(ft) : LowerCh(text[k + j]) = LowerCh(ft[j])

\* The words of the page that contain ft and share area with the region.
WordCandidates(region, ft) ==
    { k \in 1..Len(call.words) :
        /\ ContainsIgnoringCase(call.words[k].text, ft)
        /\ SharedArea(call.words[k].rect, region) > 0 }

\* Target t is word k: its box grown on every side, its text, and its text
\* with ft replaced.
IsWordTarget(t, k, region, ft) ==
    /\ \A j \in WordCandidates(region, ft) :
           SharedArea(call.words[k].rect, region) >= SharedArea(call.words[j].rect, region)
    /\ t.rect.x0 < call.words[k].rect.x0 /\ t.rect.y0 < call.words[k].rect.y0
    /\ t.rect.x1 > call.words[k].rect.x1 /\ t.rect.y1 > call.words[k].rect.y1
    /\ t.original = call.words[k].text
    /\ t.insert = _replace_case_insensitive(call.words[k].text, ft, call.replace_text)

\* Target t is the region kept, its original text read back from the page
\* (when the read returns).
IsRegionTarget(t, region) ==
    /\ t.rect = region
    /\ t.insert = call.replace_text
    /\ ~ret.textbox.raises => t.original = Strip(ret.textbox.text)

WholeWordRule(ft, expands) ==
    RegionsDone =>
        \A i \in 1..Len(ret.targets) :
            IF expands /\ WordCandidates(ret.rects[i].rect, ft) # {}
            THEN \E k \in WordCandidates(ret.rects[i].rect, ft) :
                     IsWordTarget(ret.targets[i], k, ret.rects[i].rect, ft)
            ELSE IsRegionTarget(ret.targets[i], ret.rects[i].rect)

RawHits == { call.raw_rects[k] : k \in { j \in 1..Len(call.raw_rects) : RectTruth(call.raw_rects[j]) } }

Covers(outer, inner) ==
    /\ outer.x0 <= inner.x0 /\ outer.y0 <= inner.y0
    /\ outer.x1 >= inner.x1 /\ outer.y1 >= inner.y1

\* C27: every occurrence the raw search reported on a page lies inside one
\* of the page's final regions, the rectangles that are redacted and get the
\* replacement text.
C27_EveryHitInARegion ==
    RegionsDone =>
        \A r \in RawHits : \E i \in 1..Len(ret.targets) : Covers(ret.targets[i].rect, r)

\* The padding a region of this height can carry on each side: 2 points,
\* or 0.15 of the height when that is more.
PaddingOf(t) == Max2(Pt(2), (15 * Height(t)) \div 100)

\* Hits a and b are separate occurrences, a to the left of b, with more
\* between them than the padding of region t on both sides.
SeparateOccurrences(a, b, t) == b.x0 - a.x1 > 2 * PaddingOf(t)

\* C28: no redacted rectangle holds two separate occurrences of the search
\* string, so that the page text between two occurrences on a line is never
\* inside a redacted region.
C28_OneOccurrencePerRegion ==
    RegionsDone =>
        \A i \in 1..Len(ret.targets) : \A a \in RawHits, b \in RawHits :
            SeparateOccurrences(a, b, ret.targets[i].rect)
                => ~(Covers(ret.targets[i].rect, a) /\ Covers(ret.targets[i].rect, b))

(***************************************************************************)
(* The family of a custom-directory font file.                             *)
(***************************************************************************)
\* C30: the font file the custom-directory tier returns for a match has
\* the family key of the match's detected font name in its file name.
C30_CustomFileOfFamily ==
    (HasMatch /\ CustomFileOfMatch # NoFile) =>
        IsSubSeq(FamilyKeyOfMatch, LowerStr(CustomFileOfMatch.name))

====
